---- MODULE Spec2Model ----
(***************************************************************************)
(* The execution engine of telos (src/telos/executor.py), its external     *)
(* tool transport (src/telos/mcp_client.py) and the provider event stream  *)
(* (src/telos/provider.py).                                                *)
(*                                                                         *)
(* One skill execution is a record `run`; every handler of the engine is   *)
(* an operator from a run (and the inputs the step reads from the         *)
(* provider or the environment) to the run after the step.  `twin` is a    *)
(* second execution, used by the specifications that compare two          *)
(* executions.  `backend` is the generator of the compatibility backend    *)
(* while it consumes a chunk stream, `shell` one run_command invocation,   *)
(* `bot` the Discord front end (src/telos/discord_bot.py), `router` one    *)
(* route_intent call (src/telos/router.py) and `store` the files the       *)
(* installer keeps (src/telos/installer.py); each is driven by a           *)
(* specification of its own and idle in the others.                        *)
(***************************************************************************)
EXTENDS Integers, Sequences, FiniteSets, TLC

VARIABLES run, twin, backend, shell, bot, router, store, chunker

vars == <<run, twin, backend, shell, bot, router, store, chunker>>

\* the parts of the state an engine step leaves alone
beside_run == <<twin, backend, shell, bot, router, store, chunker>>
beside_pair == <<backend, shell, bot, router, store, chunker>>

(***************************************************************************)
(* Bounds of the model.                                                    *)
(***************************************************************************)
\* tool_call events in one provider response of a varied round
MaxCalls == 2
\* the provider's responses and the tools' effects vary freely during the
\* first VariedRounds rounds; later rounds repeat a plain response (one tool
\* call, a final text, or a failure)
VariedRounds == 1
\* servers in an external-server declaration
MaxServers == 2
\* chunks (text chunks, for the native backend) in one streamed response
MaxChunks == 3
\* tool-call deltas in one chunk
MaxDeltas == 1
\* exit codes of a command run from -MaxExitCode (killed by a signal) to
\* MaxExitCode
MaxExitCode == 2
\* messages the Discord front end receives
MaxMessages == 3
\* characters of the user input handed to the router
MaxInput == 3
\* skills of the agent the router searches
MaxSkills == 2
\* install and uninstall operations in a row
MaxOps == 3
MaxWrites == 1
MaxReady == 1
LongOutput == 2500
MaxText == 5
MaxLimit == 3

(***************************************************************************)
(* Program constants.                                                      *)
(***************************************************************************)
\* for _round in range(20)
MaxRounds == 20

BUILTIN_TOOLS ==
    <<"write_file", "read_file", "list_directory", "fetch_url", "run_command">>

builtin_names == {BUILTIN_TOOLS[i] : i \in DOMAIN BUILTIN_TOOLS}

SYSTEM_SIMPLE ==
    "Follow the instructions carefully and provide a helpful response. Use the available tools to read and write files as needed."
SYSTEM_MCP ==
    "Follow the instructions carefully and provide a helpful response. Use the available tools as needed."
SYSTEM_PLAIN ==
    "Follow the instructions carefully and provide a helpful response."

(***************************************************************************)
(* Sequences.                                                              *)
(***************************************************************************)
SeqsUpTo(S, n) == UNION {[1..k -> S] : k \in 0..n}

Range(s) == {s[i] : i \in DOMAIN s}

Reverse(s) == [i \in 1..Len(s) |-> s[Len(s) + 1 - i]]

RECURSIVE Flatten(_)
Flatten(ss) == IF ss = <<>> THEN <<>> ELSE Head(ss) \o Flatten(Tail(ss))

(***************************************************************************)
(* Data model (provider.py).  A text is a sequence of characters, so that  *)
(* "".join is concatenation.                                               *)
(***************************************************************************)
NoCall == [id |-> "", name |-> ""]

\* StreamEvent(type="text", text=t)
TextEvent(t) == [type |-> "text", text |-> t, tool_call |-> NoCall]
\* StreamEvent(type="tool_call", tool_call=c)
ToolCallEvent(c) == [type |-> "tool_call", text |-> <<>>, tool_call |-> c]
\* StreamEvent(type="done")
DoneEvent == [type |-> "done", text |-> <<>>, tool_call |-> NoCall]
\* the generator raises instead of yielding its next event
RaiseEvent == [type |-> "raise", text |-> <<>>, tool_call |-> NoCall]

\* ToolResult(tool_call_id="", content=c, is_error=e)
ToolResult(c, e) == [content |-> c, is_error |-> e]

\* tools=None
None == [none |-> TRUE, defs |-> <<>>]
ToolList(defs) == [none |-> FALSE, defs |-> defs]
\* `if tools:` -- None and the empty list are both false
Truthy(tools) == ~tools.none /\ tools.defs # <<>>

(***************************************************************************)
(* The inputs of the model: what the provider streams and what the        *)
(* environment answers.                                                    *)
(***************************************************************************)
\* ids a provider issues; the compatibility backend issues "" for a call
\* whose deltas carry no id
Ids == {"", "call_1"}
CallNames == {"read_file", "ext_tool"}
ToolCalls == [id : Ids, name : CallNames]

\* text fragments of one response: none, or "a", "" and "b"
TextScripts == {<<>>, << <<"a">>, <<>>, <<"b">> >>}

EventsOf(texts, calls) ==
    [i \in 1..Len(texts) |-> TextEvent(texts[i])]
        \o [i \in 1..Len(calls) |-> ToolCallEvent(calls[i])]

VariedResponses ==
    {EventsOf(ts, cs) \o <<e>> :
        ts \in TextScripts, cs \in SeqsUpTo(ToolCalls, MaxCalls),
        e \in {DoneEvent, RaiseEvent}}

PlainCall == [id |-> "call_1", name |-> "read_file"]

PlainResponses ==
    {<<ToolCallEvent(PlainCall), DoneEvent>>,
     <<TextEvent(<<"a">>), DoneEvent>>,
     <<RaiseEvent>>}

ExternalCall == [id |-> "call_1", name |-> "ext_tool"]

\* the responses to the call of the last round: a plain one, or a call of a
\* tool that is not built in
LastResponses ==
    PlainResponses \cup {<<ToolCallEvent(ExternalCall), DoneEvent>>}

\* the responses the provider may give to the call of round n: the first
\* rounds and the last are varied, the rounds between repeat plain ones
Responses(n) ==
    IF n <= VariedRounds THEN VariedResponses
    ELSE IF n = MaxRounds THEN LastResponses
    ELSE PlainResponses

\* execute_skill's environment mapping: the two keys _create_provider reads
Envs ==
    [TELOS_PROVIDER : {"absent", "anthropic", "ollama"},
     ANTHROPIC_API_KEY : {"absent", "", "sk-key"}]

\* entries of mcpServers: the key, the transport tag and the tools the
\* server lists
Servers ==
    {[name |-> "a", type |-> "sse", tools |-> <<"ext_tool">>],
     [name |-> "b", type |-> "absent", tools |-> <<"read_file", "ext_tool">>]}

\* mcp_config_path: None, or the declaration it holds: a mapping, so no
\* key occurs twice
McpConfigs ==
    {c \in SeqsUpTo(Servers, MaxServers) :
        \A i, j \in DOMAIN c : c[i].name = c[j].name => i = j}

\* what connecting to one server does
ConnectFaults == {"none", "connect", "initialize", "list_tools"}

(***************************************************************************)
(* An execution before execute_skill is called.  env and the declaration   *)
(* are the arguments of the call; the run keeps them until they are read.  *)
(***************************************************************************)
NoEnv == [TELOS_PROVIDER |-> "absent", ANTHROPIC_API_KEY |-> "absent"]

Idle ==
    [pc |-> "idle", variant |-> "none", env |-> NoEnv, has_mcp |-> FALSE,
     servers |-> <<>>, next_server |-> 1,
     stack |-> <<>>, closed |-> <<>>, mcp_tools |-> <<>>,
     tool_to_session |-> <<>>, system |-> "", tools |-> None,
     messages |-> <<>>, rounds |-> 0, text_parts |-> <<>>, heard |-> <<>>,
     yielded |-> <<>>,
     tool_calls |-> <<>>, tool_results |-> <<>>, events |-> <<>>,
     out |-> <<>>, calls |-> <<>>, sent |-> <<>>, replies |-> <<>>,
     handed |-> <<>>,
     n_tool_calls |-> 0,
     log |-> <<>>,
     pending |-> "none", error |-> "none", outcome |-> "none"]

\* execute_skill(..., env, mcp_config_path) about to run
Invocation(env, has_mcp, config) ==
    [Idle EXCEPT !.env = env, !.has_mcp = has_mcp, !.servers = config]

Invocations ==
    {Invocation(env, FALSE, <<>>) : env \in Envs}
        \cup {Invocation(env, TRUE, config) : env \in Envs, config \in McpConfigs}

(***************************************************************************)
(* Built-in tools (executor.py).  `fx` is what the file system, the        *)
(* network or the shell does when the tool runs: "ok", or "raise" when the *)
(* operation throws (missing file, permission error, timeout, ...).        *)
(***************************************************************************)
execute_builtin_tool(name, fx) ==
    IF name \in builtin_names
    THEN IF fx = "ok"
         THEN ToolResult(<<"ok">>, FALSE)
         \* except Exception as e: content=str(e), is_error=True
         ELSE ToolResult(<<"str(e)">>, TRUE)
    ELSE ToolResult(<<"Unknown tool: ", name>>, TRUE)

(***************************************************************************)
(* External tool transport (mcp_client.py).                                *)
(***************************************************************************)
\* Connector with SSE as the default transport: an entry without a type is
\* opened with the SSE connector
Connector_sse_default(server) ==
    IF server.type \in {"sse", "absent"}
    THEN "sse_client" ELSE "streamablehttp_client"

\* the connector connect_mcp_servers enters for a server entry
Connector(server) ==
    IF server.type = "sse" THEN "sse_client" ELSE "streamablehttp_client"

\* dict.get on the routing table, kept as the sequence of its assignments:
\* the last assignment of a name wins; 0 stands for None
RECURSIVE SessionOf(_, _)
SessionOf(table, name) ==
    IF table = <<>> THEN 0
    ELSE IF table[Len(table)].name = name THEN table[Len(table)].session
    ELSE SessionOf(SubSeq(table, 1, Len(table) - 1), name)

\* what a server answers to session.call_tool: a text, a text with an
\* image between two texts ("mixed"), or an error with its diagnostic
ServerReply(fx) ==
    IF fx = "ok"
    THEN [isError |-> FALSE, content |-> <<[type |-> "text", text |-> "x"]>>]
    ELSE IF fx = "mixed"
    THEN [isError |-> FALSE,
          content |-> <<[type |-> "text", text |-> "x"],
                        [type |-> "image", data |-> "png"],
                        [type |-> "text", text |-> "y"]>>]
    ELSE [isError |-> TRUE, content |-> <<[type |-> "text", text |-> "e"]>>]

RECURSIVE TextParts(_)
TextParts(blocks) ==
    IF blocks = <<>> THEN <<>>
    ELSE (IF Head(blocks).type = "text" THEN <<Head(blocks).text>> ELSE <<>>)
             \o TextParts(Tail(blocks))

\* "\n".join(parts)
RECURSIVE JoinLines(_)
JoinLines(parts) ==
    IF Len(parts) <= 1 THEN parts
    ELSE <<Head(parts), "\n">> \o JoinLines(Tail(parts))

\* call_tool_raises with the routing table indexed (`_tool_to_session[name]`)
\* instead of read with .get: a name without a route is a KeyError
call_tool_raises_on_unknown(table, name, fx) ==
    SessionOf(table, name) = 0 \/ fx = "raise"

\* McpContext.call_tool raises exactly when session.call_tool does
call_tool_raises(table, name, fx) ==
    SessionOf(table, name) # 0 /\ fx = "raise"

\* McpContext.call_tool, when it returns
call_tool(table, name, fx) ==
    IF SessionOf(table, name) = 0
    THEN ToolResult(<<"Unknown tool: ", name>>, TRUE)
    ELSE ToolResult(JoinLines(TextParts(ServerReply(fx).content)),
                    ServerReply(fx).isError)

(***************************************************************************)
(* execute_skill and _create_provider (executor.py).                       *)
(***************************************************************************)
\* create_provider with the key tested for presence only (`is None`), so
\* that an empty key is accepted
create_provider_key_present(env) ==
    LET provider_type ==
            IF env.TELOS_PROVIDER = "absent" THEN "anthropic"
            ELSE env.TELOS_PROVIDER
    IN  IF provider_type = "ollama" THEN "OllamaProvider"
        ELSE IF env.ANTHROPIC_API_KEY = "absent" THEN "SystemExit"
        ELSE "AnthropicProvider"

create_provider(env) ==
    LET provider_type ==
            IF env.TELOS_PROVIDER = "absent" THEN "anthropic"
            ELSE env.TELOS_PROVIDER
    IN  IF provider_type = "ollama" THEN "OllamaProvider"
        ELSE IF env.ANTHROPIC_API_KEY \in {"absent", ""} THEN "SystemExit"
        ELSE "AnthropicProvider"

\* messages = [{"role": "user", "content": prompt}]
Prompt == [role |-> "user", content |-> "prompt"]

\* simple_setup with the degraded mode kept in a module-level flag: once a
\* run has dropped its tools, later executions start without them
simple_setup_remembering_degraded(r) ==
    [r EXCEPT !.system = SYSTEM_SIMPLE, !.messages = <<Prompt>>,
              !.tools = IF r.tools.none /\ r.system = SYSTEM_PLAIN
                        THEN None ELSE ToolList(BUILTIN_TOOLS),
              !.rounds = 0, !.pc = "loop"]

\* the first statements of _execute_simple, up to the `for` that starts the
\* round count
simple_setup(r) ==
    [r EXCEPT !.system = SYSTEM_SIMPLE, !.messages = <<Prompt>>,
              !.tools = ToolList(BUILTIN_TOOLS), !.rounds = 0, !.pc = "loop"]

\* the first statements inside `async with connect_mcp_servers(...)`
mcp_setup(r) ==
    [r EXCEPT !.system = SYSTEM_MCP, !.messages = <<Prompt>>,
              !.tools = ToolList(BUILTIN_TOOLS \o r.mcp_tools),
              !.rounds = 0, !.pc = "loop"]

\* log_ctx = log_skill_start(...): the entry is appended to the log and the
\* counters of the execution start at 0
log_skill_start(r) ==
    [r EXCEPT !.log = Append(@, <<"skill_start">>),
              !.n_tool_calls = 0, !.rounds = 0,
              !.pending = "none", !.error = "none", !.outcome = "none"]

\* connect_mcp_servers before its loop: an empty catalog, an empty routing
\* table and a new exit stack
connect_start(r) ==
    [r EXCEPT !.mcp_tools = <<>>, !.tool_to_session = <<>>,
              !.stack = <<>>, !.closed = <<>>, !.next_server = 1,
              !.pc = "connect"]

\* execute_skill up to the call of the engine variant; has_mcp is
\* `mcp_config_path is not None`.  env is not read again by the steps
\* modelled here, and the run forgets it.
execute_skill(r) ==
    IF create_provider(r.env) = "SystemExit"
    THEN [r EXCEPT !.pc = "done", !.outcome = "SystemExit"]
    ELSE IF r.has_mcp
    THEN connect_start(log_skill_start(
            [r EXCEPT !.variant = "mcp", !.env = NoEnv]))
    ELSE simple_setup(log_skill_start(
            [r EXCEPT !.variant = "simple", !.env = NoEnv]))

(***************************************************************************)
(* How a run leaves the engine.                                            *)
(***************************************************************************)
\* an exception leaves the loop: through the `async with` of the
\* external-tools variant, then to execute_skill's except clause
propagate(r, err) ==
    IF r.variant = "mcp"
    THEN [r EXCEPT !.pc = "unwind", !.pending = "raise", !.error = err]
    ELSE [r EXCEPT !.pc = "except", !.error = err]

\* `break`, or range(20) is used up
leave_loop(r) ==
    IF r.variant = "mcp"
    THEN [r EXCEPT !.pc = "unwind", !.pending = "return"]
    ELSE [r EXCEPT !.pc = "finish"]

\* exit_stack without the scoped release: contexts are closed on the normal
\* path only, as explicit close calls after the loop would do
exit_stack_on_return(r) ==
    IF r.pending = "raise"
    THEN [r EXCEPT !.pc = "except"]
    ELSE [r EXCEPT !.closed = @ \o Reverse(r.stack),
                   !.stack = [i \in 1..Len(r.stack) |->
                                 [r.stack[i] EXCEPT !.open = FALSE]],
                   !.pc = "finish"]

\* AsyncExitStack.__aexit__: every context entered is closed, last first;
\* `closed` is the order of the closings
exit_stack(r) ==
    [r EXCEPT !.closed = @ \o Reverse(r.stack),
              !.stack = [i \in 1..Len(r.stack) |-> [r.stack[i] EXCEPT !.open = FALSE]],
              !.pc = IF r.pending = "raise" THEN "except" ELSE "finish"]

\* finish without log_skill_end
finish_without_log(r) ==
    [r EXCEPT !.out = Append(@, <<"\n">>),
              !.outcome = "returned", !.pc = "done"]

\* the last statements of both variants
finish(r) ==
    [r EXCEPT !.out = Append(@, <<"\n">>),
              !.log = Append(@, <<"skill_end", "None">>),
              !.outcome = "returned", !.pc = "done"]

\* execute_skill: except Exception as e: log_skill_end(..., error=str(e)); raise
except_clause(r) ==
    [r EXCEPT !.log = Append(@, <<"skill_end", r.error>>),
              !.outcome = "raised", !.pc = "done"]

(***************************************************************************)
(* connect_mcp_servers: one server of the declaration.                     *)
(***************************************************************************)
connect_server(r, fault) ==
    LET i == r.next_server
        server == r.servers[i]
        transport == [ctx |-> Connector(server), server |-> i, open |-> TRUE]
        session == [ctx |-> "ClientSession", server |-> i, open |-> TRUE]
        routes == [k \in 1..Len(server.tools) |->
                      [name |-> server.tools[k], session |-> i]]
    IN  IF fault = "connect"
        THEN propagate(r, "connect failed")
        ELSE IF fault \in {"initialize", "list_tools"}
        THEN propagate([r EXCEPT !.stack = @ \o <<transport, session>>],
                       "session failed")
        ELSE [r EXCEPT !.stack = @ \o <<transport, session>>,
                       !.mcp_tools = @ \o server.tools,
                       !.tool_to_session = @ \o routes,
                       !.next_server = i + 1]

(***************************************************************************)
(* The conversation loop (_execute_simple, _execute_with_mcp).             *)
(***************************************************************************)
\* loop_has_next off by one: range(21)
loop_has_next_inclusive(r) == r.rounds <= MaxRounds

\* for _round in range(20)
loop_has_next(r) == r.rounds < MaxRounds

\* messages=messages of a provider call: `handed` keeps the histories the
\* last two calls were handed, as they were when handed over
hand_over(handed, messages) ==
    IF handed = <<>> THEN <<messages>>
    ELSE <<handed[Len(handed)], messages>>

\* next_round with the text buffer created once, before the loop
next_round_keeping_text(r, response) ==
    [r EXCEPT !.rounds = @ + 1, !.tool_calls = <<>>, !.heard = <<>>,
              !.yielded = <<>>,
              !.calls = Append(@, [system |-> r.system, tools |-> r.tools,
                                   turns |-> Len(r.messages)]),
              !.handed = hand_over(@, r.messages),
              !.events = response, !.pc = "stream"]

\* next_round with `tools = BUILTIN_TOOLS` inside the loop of
\* _execute_simple: every round starts with the catalog
next_round_restoring(r, response) ==
    [r EXCEPT !.rounds = @ + 1, !.text_parts = <<>>, !.tool_calls = <<>>,
              !.heard = <<>>, !.yielded = <<>>,
              !.tools = IF r.variant = "simple"
                        THEN ToolList(BUILTIN_TOOLS) ELSE @,
              !.calls = Append(@, [system |-> r.system,
                                   tools |-> IF r.variant = "simple"
                                             THEN ToolList(BUILTIN_TOOLS)
                                             ELSE r.tools,
                                   turns |-> Len(r.messages)]),
              !.handed = hand_over(@, r.messages),
              !.events = response, !.pc = "stream"]

\* the head of the loop body and the call of provider.stream_completion;
\* `calls` lists the calls made: system, tools, and the length of the history
\* handed over, `handed` the histories of the last two calls; `heard` and `yielded` list the text fragments and the
\* tool calls the response of this call has delivered
next_round(r, response) ==
    [r EXCEPT !.rounds = @ + 1, !.text_parts = <<>>, !.tool_calls = <<>>,
              !.heard = <<>>, !.yielded = <<>>,
              !.calls = Append(@, [system |-> r.system, tools |-> r.tools,
                                   turns |-> Len(r.messages)]),
              !.handed = hand_over(@, r.messages),
              !.events = response, !.pc = "stream"]

\* consume_event writing the text accumulated so far in the round at every
\* fragment, instead of the fragment
consume_event_rewriting(r) ==
    LET event == Head(r.events)
    IN  IF event.type = "text" /\ event.text # <<>>
        THEN [r EXCEPT !.out = Append(@, Flatten(Append(r.text_parts, event.text))),
                       !.text_parts = Append(@, event.text),
                       !.heard = Append(@, event.text),
                       !.events = Tail(@)]
        ELSE IF event.type = "tool_call"
        THEN [r EXCEPT !.tool_calls = Append(@, event.tool_call),
                       !.yielded = Append(@, event.tool_call),
                       !.events = Tail(@)]
        ELSE [r EXCEPT !.heard = Append(@, event.text), !.events = Tail(@)]

\* the body of `for event in events`
consume_event(r) ==
    LET event == Head(r.events)
    IN  IF event.type = "text" /\ event.text # <<>>
        THEN [r EXCEPT !.out = Append(@, event.text),
                       !.text_parts = Append(@, event.text),
                       !.heard = Append(@, event.text),
                       !.events = Tail(@)]
        ELSE IF event.type = "tool_call"
        THEN [r EXCEPT !.tool_calls = Append(@, event.tool_call),
                       !.yielded = Append(@, event.tool_call),
                       !.events = Tail(@)]
        \* a text event without text
        ELSE [r EXCEPT !.heard = Append(@, event.text), !.events = Tail(@)]

\* the tool_use block of a call
tool_use_block(tc) == [type |-> "tool_use", id |-> tc.id, name |-> tc.name]

\* assistant_content of the round
assistant_content(r) ==
    (IF r.text_parts # <<>>
     THEN <<[type |-> "text", text |-> Flatten(r.text_parts)]>> ELSE <<>>)
        \o [i \in 1..Len(r.tool_calls) |-> tool_use_block(r.tool_calls[i])]

\* stream_end without `if not tool_calls: break`: every round appends its
\* assistant turn and goes on to the tools
stream_end_without_break(r) ==
    [r EXCEPT !.events = <<>>, !.tool_results = <<>>,
              !.messages = Append(@, [role |-> "assistant",
                                      content |-> assistant_content(r)]),
              !.pc = "tools"]

\* the stream is exhausted: `if not tool_calls: break`, else the assistant turn
stream_end(r) ==
    IF r.tool_calls = <<>>
    THEN leave_loop([r EXCEPT !.events = <<>>])
    ELSE [r EXCEPT !.events = <<>>, !.tool_results = <<>>,
                   !.messages = Append(@, [role |-> "assistant",
                                           content |-> assistant_content(r)]),
                   !.pc = "tools"]

\* provider_error keeping what the failed attempt delivered as an
\* assistant turn
provider_error_recording(r) ==
    IF r.variant = "simple" /\ Truthy(r.tools)
    THEN [r EXCEPT !.tools = None, !.system = SYSTEM_PLAIN,
                   !.messages = Append(@, [role |-> "assistant",
                                           content |-> assistant_content(r)]),
                   !.events = <<>>, !.pc = "loop"]
    ELSE propagate([r EXCEPT !.events = <<>>], "provider error")

\* the provider call raises: _execute_simple's except clause; the
\* external-tools variant has none
provider_error(r) ==
    IF r.variant = "simple" /\ Truthy(r.tools)
    THEN [r EXCEPT !.tools = None, !.system = SYSTEM_PLAIN,
                   !.events = <<>>, !.pc = "loop"]
    ELSE propagate([r EXCEPT !.events = <<>>], "provider error")

\* uses_builtin with the routing table consulted first, so that a server
\* advertising a built-in name takes the call
uses_builtin_unless_routed(r, tc) ==
    \/ r.variant = "simple"
    \/ tc.name \in builtin_names /\ SessionOf(r.tool_to_session, tc.name) = 0

\* which executor a call goes to
uses_builtin(r, tc) == r.variant = "simple" \/ tc.name \in builtin_names

\* tool_result_block keyed by the result's own tool_call_id, which the
\* executors leave at ""
tool_result_block_from_result(tc, result) ==
    [type |-> "tool_result", tool_use_id |-> "",
     content |-> result.content, is_error |-> result.is_error]

\* the tool_result block of a call
tool_result_block(tc, result) ==
    [type |-> "tool_result", tool_use_id |-> tc.id,
     content |-> result.content, is_error |-> result.is_error]

\* `await mcp_ctx.call_tool(tc.name, ...)` is reached: `sent` lists the calls
\* handed to the transport, with the session the routing table gives
\* (0 when it has none)
dispatch(r, tc) ==
    IF uses_builtin(r, tc) THEN r
    ELSE [r EXCEPT !.sent = Append(@, [name |-> tc.name,
                        session |-> SessionOf(r.tool_to_session, tc.name)])]

\* execute_tool taking the calls of the round last first
execute_tool_last_first(r, fx) ==
    LET tc == r.tool_calls[Len(r.tool_calls) - Len(r.tool_results)]
        result == IF uses_builtin(r, tc)
                  THEN execute_builtin_tool(tc.name, fx)
                  ELSE call_tool(r.tool_to_session, tc.name, fx)
        d == dispatch(r, tc)
    IN  IF ~uses_builtin(r, tc) /\ call_tool_raises(r.tool_to_session, tc.name, fx)
        THEN propagate(d, "tool error")
        ELSE [d EXCEPT !.n_tool_calls = @ + 1,
                       !.replies = IF uses_builtin(r, tc)
                                      \/ SessionOf(r.tool_to_session, tc.name) = 0
                                   THEN @ ELSE Append(@, ServerReply(fx)),
                       !.log = Append(@, <<"tool_call", tc.name, result.is_error>>),
                       !.tool_results = Append(@, tool_result_block(tc, result))]

\* one iteration of `for tc in tool_calls`; `replies` lists what the servers
\* answered
execute_tool(r, fx) ==
    LET tc == r.tool_calls[Len(r.tool_results) + 1]
        result == IF uses_builtin(r, tc)
                  THEN execute_builtin_tool(tc.name, fx)
                  ELSE call_tool(r.tool_to_session, tc.name, fx)
        d == dispatch(r, tc)
    IN  IF ~uses_builtin(r, tc) /\ call_tool_raises(r.tool_to_session, tc.name, fx)
        THEN propagate(d, "tool error")
        ELSE [d EXCEPT !.n_tool_calls = @ + 1,
                       !.replies = IF uses_builtin(r, tc)
                                      \/ SessionOf(r.tool_to_session, tc.name) = 0
                                   THEN @ ELSE Append(@, ServerReply(fx)),
                       !.log = Append(@, <<"tool_call", tc.name, result.is_error>>),
                       !.tool_results = Append(@, tool_result_block(tc, result))]

\* append_results putting the results in the place of the assistant turn
append_results_replacing(r) ==
    [r EXCEPT !.messages[Len(r.messages)] = [role |-> "user",
                                             content |-> r.tool_results],
              !.pc = "loop"]

\* messages.append({"role": "user", "content": tool_results})
append_results(r) ==
    [r EXCEPT !.messages = Append(@, [role |-> "user",
                                      content |-> r.tool_results]),
              !.pc = "loop"]

\* what running a call can do in the environment of run r; a tool fails
\* in the first rounds and in the last, and succeeds in the rounds between
Effects(r, tc) ==
    IF r.rounds > VariedRounds /\ r.rounds < MaxRounds THEN {"ok"}
    ELSE IF uses_builtin(r, tc)
    THEN (IF tc.name \in builtin_names THEN {"ok", "raise"} ELSE {"ok"})
    ELSE IF SessionOf(r.tool_to_session, tc.name) # 0
    THEN {"ok", "mixed", "error", "raise"}
    ELSE {"ok"}

(***************************************************************************)
(* One execution: the actions.                                             *)
(***************************************************************************)
Unused == [pc |-> "unused"]

Init ==
    /\ run \in Invocations /\ twin = Idle
    /\ backend = Unused /\ shell = Unused /\ bot = Unused
    /\ router = Unused /\ store = Unused /\ chunker = Unused

ExecuteSkill ==
    /\ run.pc = "idle"
    /\ run' = execute_skill(run)
    /\ UNCHANGED beside_run

ConnectServer ==
    /\ run.pc = "connect"
    /\ run.next_server <= Len(run.servers)
    /\ \E fault \in ConnectFaults : run' = connect_server(run, fault)
    /\ UNCHANGED beside_run

McpSetup ==
    /\ run.pc = "connect"
    /\ run.next_server > Len(run.servers)
    /\ run' = mcp_setup(run)
    /\ UNCHANGED beside_run

NextRound ==
    /\ run.pc = "loop"
    /\ loop_has_next(run)
    /\ \E response \in Responses(run.rounds + 1) : run' = next_round(run, response)
    /\ UNCHANGED beside_run

RoundsExhausted ==
    /\ run.pc = "loop"
    /\ ~loop_has_next(run)
    /\ run' = leave_loop(run)
    /\ UNCHANGED beside_run

ConsumeEvent ==
    /\ run.pc = "stream"
    /\ Head(run.events).type \in {"text", "tool_call"}
    /\ run' = consume_event(run)
    /\ UNCHANGED beside_run

StreamEnd ==
    /\ run.pc = "stream"
    /\ Head(run.events).type = "done"
    /\ run' = stream_end(run)
    /\ UNCHANGED beside_run

ProviderError ==
    /\ run.pc = "stream"
    /\ Head(run.events).type = "raise"
    /\ run' = provider_error(run)
    /\ UNCHANGED beside_run

ExecuteTool ==
    /\ run.pc = "tools"
    /\ Len(run.tool_results) < Len(run.tool_calls)
    /\ \E fx \in Effects(run, run.tool_calls[Len(run.tool_results) + 1]) :
          run' = execute_tool(run, fx)
    /\ UNCHANGED beside_run

AppendResults ==
    /\ run.pc = "tools"
    /\ Len(run.tool_results) = Len(run.tool_calls)
    /\ run' = append_results(run)
    /\ UNCHANGED beside_run

ExitStack ==
    /\ run.pc = "unwind"
    /\ run' = exit_stack(run)
    /\ UNCHANGED beside_run

Finish ==
    /\ run.pc = "finish"
    /\ run' = finish(run)
    /\ UNCHANGED beside_run

ExceptClause ==
    /\ run.pc = "except"
    /\ run' = except_clause(run)
    /\ UNCHANGED beside_run

Next ==
    \/ ExecuteSkill
    \/ ConnectServer
    \/ McpSetup
    \/ NextRound
    \/ RoundsExhausted
    \/ ConsumeEvent
    \/ StreamEnd
    \/ ProviderError
    \/ ExecuteTool
    \/ AppendResults
    \/ ExitStack
    \/ Finish
    \/ ExceptClause

Spec == Init /\ [][Next]_vars

(***************************************************************************)
(* Two executions side by side: `run` is the built-in-only loop, `twin`    *)
(* the external-tools loop with a declaration that lists no server, so the *)
(* transport contributes no tool.  After their setup both take their next  *)
(* step together and read the same provider response and the same tool     *)
(* effect.                                                                 *)
(***************************************************************************)
\* the step a run takes next, with the inputs it may read
Advance(r, response, fx) ==
    CASE r.pc = "idle" -> execute_skill(r)
      [] r.pc = "connect" ->
            IF r.next_server <= Len(r.servers)
            THEN connect_server(r, "none") ELSE mcp_setup(r)
      [] r.pc = "loop" ->
            IF loop_has_next(r) THEN next_round(r, response) ELSE leave_loop(r)
      [] r.pc = "stream" ->
            IF Head(r.events).type = "done" THEN stream_end(r)
            ELSE IF Head(r.events).type = "raise" THEN provider_error(r)
            ELSE consume_event(r)
      [] r.pc = "tools" ->
            IF Len(r.tool_results) < Len(r.tool_calls)
            THEN execute_tool(r, fx) ELSE append_results(r)
      [] r.pc = "unwind" -> exit_stack(r)
      [] r.pc = "finish" -> finish(r)
      [] r.pc = "except" -> except_clause(r)
      [] OTHER -> r

InSetup(r) == r.pc \in {"idle", "connect"}

PairInit ==
    /\ \E env \in Envs :
          /\ run = Invocation(env, FALSE, <<>>)
          /\ twin = Invocation(env, TRUE, <<>>)
    /\ backend = Unused /\ shell = Unused /\ bot = Unused
    /\ router = Unused /\ store = Unused /\ chunker = Unused

\* execute_skill up to the first round, each run on its own
PairSetup ==
    /\ InSetup(run) \/ InSetup(twin)
    /\ run' = IF InSetup(run) THEN Advance(run, <<DoneEvent>>, "ok") ELSE run
    /\ twin' = IF InSetup(twin) THEN Advance(twin, <<DoneEvent>>, "ok") ELSE twin
    /\ UNCHANGED beside_pair

\* one step of both runs on the same inputs
PairStep ==
    /\ ~InSetup(run) /\ ~InSetup(twin)
    /\ run.pc # "done" \/ twin.pc # "done"
    /\ \E response \in Responses(run.rounds + 1),
          fx \in IF run.pc = "tools" /\ Len(run.tool_results) < Len(run.tool_calls)
                 THEN Effects(run, run.tool_calls[Len(run.tool_results) + 1])
                 ELSE {"ok"} :
          /\ run' = Advance(run, response, fx)
          /\ twin' = Advance(twin, response, fx)
    /\ UNCHANGED beside_pair

PairNext ==
    \/ PairSetup
    \/ PairStep

SpecPair == PairInit /\ [][PairNext]_vars

(***************************************************************************)
(* Reading a history.                                                      *)
(***************************************************************************)
\* the blocks of a given type in the content of a turn, in order
RECURSIVE BlocksOfType(_, _)
BlocksOfType(content, type) ==
    IF content = <<>> THEN <<>>
    ELSE (IF Head(content).type = type THEN <<Head(content)>> ELSE <<>>)
             \o BlocksOfType(Tail(content), type)

\* the positions of the assistant turns of a history (the first turn is the
\* prompt, whose content is plain text)
AssistantTurns(messages) ==
    {i \in 2..Len(messages) : messages[i].role = "assistant"}

\* the number of tool_result blocks of the turn after turn i that carry id
ResultsFor(messages, i, id) ==
    IF i + 1 > Len(messages) \/ messages[i + 1].role # "user" THEN 0
    ELSE Cardinality({k \in DOMAIN messages[i + 1].content :
            /\ messages[i + 1].content[k].type = "tool_result"
            /\ messages[i + 1].content[k].tool_use_id = id})

\* every tool_use block is matched by exactly one tool_result block of the
\* immediately following user turn, by id
MatchedById(messages) ==
    \A i \in AssistantTurns(messages) :
        \A k \in DOMAIN messages[i].content :
            messages[i].content[k].type = "tool_use"
                => ResultsFor(messages, i, messages[i].content[k].id) = 1

(***************************************************************************)
(* C1.  Whenever the history is handed to the provider, and when the run   *)
(* ends normally, every tool_use block of an assistant turn is matched by  *)
(* exactly one tool_result block with the same id in the immediately       *)
(* following user turn -- whatever ids the provider issues.                *)
(***************************************************************************)
C1_HistoryMatchedById ==
    /\ run.pc = "stream" => MatchedById(run.messages)
    /\ run.outcome = "returned" => MatchedById(run.messages)

(***************************************************************************)
(* C2.  One skill execution makes at most 20 provider calls, whatever the  *)
(* provider does, and then ends: the loop never starts a 21st round.       *)
(***************************************************************************)
C2_AtMostTwentyCalls ==
    /\ [](Len(run.calls) <= MaxRounds /\ run.rounds = Len(run.calls))
    /\ <>(run.pc = "done")

\* a run whose 20 rounds all asked for tools, ended
C2_Witness ==
    /\ run.pc = "done"
    /\ Len(run.calls) = MaxRounds
    /\ Len(run.messages) = 1 + 2 * MaxRounds

(***************************************************************************)
(* C3.  Built-in-only loop: when a provider call raises while the tool     *)
(* catalog is non-empty, the engine makes one further provider call with   *)
(* tools=None and the simplified system instruction, in whichever round    *)
(* (1 to 20) the failure occurs.  After the catalog has been dropped and   *)
(* until that call is made, the engine is about to make it.                *)
(***************************************************************************)
RetryMade(r) == \E n \in DOMAIN r.calls : r.calls[n].tools.none

C3_RetryFollowsFailure ==
    /\ (run.variant = "simple" /\ run.tools.none /\ ~RetryMade(run))
          => (run.pc = "loop" /\ loop_has_next(run))
    /\ \A n \in DOMAIN run.calls :
          run.calls[n].tools.none => run.calls[n].system = SYSTEM_PLAIN

(***************************************************************************)
(* C4.  Built-in-only loop: a provider failure is escalated exactly when   *)
(* the retry without tools is no longer available.  A failure with the     *)
(* catalog already empty ends the run raised, with skill_end logged with   *)
(* that error; no failure is escalated before the retry has been made, and *)
(* none is silently discarded: a run that dropped its catalog after a      *)
(* failure does not return before the retry has been made.                 *)
(***************************************************************************)
C4_FailureEscalatedOrRetried ==
    run.variant = "simple" =>
        /\ run.error = "provider error" => RetryMade(run)
        /\ (run.pc = "done" /\ run.error = "provider error")
              => /\ run.outcome = "raised"
                 /\ run.log[Len(run.log)] = <<"skill_end", "provider error">>
        /\ (run.outcome = "returned" /\ run.tools.none) => RetryMade(run)

(***************************************************************************)
(* C6.  An exception raised during a single tool invocation, built-in or   *)
(* external, never leaves the conversation loop: the run never ends (or    *)
(* unwinds) with the tool's exception.                                     *)
(***************************************************************************)
C6_ToolErrorNeverPropagates == run.error # "tool error"

(***************************************************************************)
(* C7.  For every round in which the provider yields N >= 1 tool calls,    *)
(* the user turn appended for the round holds exactly N tool_result        *)
(* blocks, the i-th carrying the id of the i-th tool_use block of the     *)
(* assistant turn appended just before it.                                 *)
(***************************************************************************)
C7_ResultsInCallOrder ==
    /\ \A i \in AssistantTurns(run.messages) :
          LET uses == BlocksOfType(run.messages[i].content, "tool_use")
          IN  /\ Len(uses) >= 1
              /\ i + 1 <= Len(run.messages) =>
                    LET results == run.messages[i + 1].content
                    IN  /\ run.messages[i + 1].role = "user"
                        /\ Len(results) = Len(uses)
                        /\ \A k \in DOMAIN results :
                              /\ results[k].type = "tool_result"
                              /\ results[k].tool_use_id = uses[k].id
    /\ run.pc = "tools" =>
          LET uses == BlocksOfType(run.messages[Len(run.messages)].content,
                                   "tool_use")
          IN  /\ Len(uses) = Len(run.tool_calls)
              /\ \A k \in DOMAIN uses : uses[k].id = run.tool_calls[k].id
              /\ \A k \in DOMAIN run.tool_results :
                    run.tool_results[k].tool_use_id = run.tool_calls[k].id

\* a round of two calls with different ids, its result turn appended
C7_Witness ==
    /\ Len(run.messages) >= 3
    /\ Len(run.messages[3].content) = 2
    /\ run.messages[3].content[1].tool_use_id = "call_1"
    /\ run.messages[3].content[2].tool_use_id = ""

(***************************************************************************)
(* C8.  A round whose response holds no tool_call event is terminal: it    *)
(* appends no turn and no further provider call is made; when it is the    *)
(* first round, the run ends after that one round with the history still   *)
(* holding only the prompt.                                                *)
(***************************************************************************)
LeftLoop(r) == r.pc \in {"finish", "unwind", "except", "done"}

C8_NoToolCallsIsTerminal ==
    /\ [][(run.pc = "stream" /\ Head(run.events).type = "done"
              /\ run.tool_calls = <<>>)
            => /\ run'.messages = run.messages
               /\ run'.calls = run.calls
               /\ LeftLoop(run') /\ run'.pending # "raise"
               /\ run.rounds = 1 => run'.messages = <<Prompt>>]_vars
    /\ [][(LeftLoop(run) /\ run.variant # "none")
            => /\ LeftLoop(run')
               /\ run'.calls = run.calls
               /\ run'.rounds = run.rounds
               /\ run'.messages = run.messages]_vars

\* a run whose first response was text only, returned
C8_Witness ==
    /\ run.outcome = "returned"
    /\ run.rounds = 1 /\ Len(run.calls) = 1
    /\ run.messages = <<Prompt>>
    /\ Len(run.out) > 1

(***************************************************************************)
(* C9.  In a run with external tools every connection and session that     *)
(* was opened is closed when execute_skill returns or raises, on every     *)
(* exit path.                                                              *)
(***************************************************************************)
C9_ConnectionsClosed ==
    (run.pc = "done" /\ run.has_mcp) =>
        /\ \A i \in DOMAIN run.stack : ~run.stack[i].open
        /\ Len(run.closed) = Len(run.stack)
        /\ \A i \in DOMAIN run.closed :
              LET k == Len(run.stack) + 1 - i
              IN  /\ run.closed[i].ctx = run.stack[k].ctx
                  /\ run.closed[i].server = run.stack[k].server

\* the second server of a declaration failed after its session was opened
C9_Witness ==
    /\ run.pc = "done" /\ run.outcome = "raised"
    /\ run.error = "session failed"
    /\ Len(run.stack) = 4
    /\ \A i \in DOMAIN run.stack : ~run.stack[i].open

(***************************************************************************)
(* C10.  A setup failure aborts the run before any model call.  The        *)
(* credential: execute_skill raises SystemExit exactly when                *)
(* ANTHROPIC_API_KEY is missing or empty while TELOS_PROVIDER is not       *)
(* "ollama".  A server that fails to connect, initialize or list its tools *)
(* fails the run, and no further server is tried.  In both cases no        *)
(* provider call has been made; and a provider call of an external-tools   *)
(* run is made only with every declared server connected and its tools in  *)
(* the catalog.                                                            *)
(***************************************************************************)
SetupFailed(r) == r.error \in {"connect failed", "session failed"}

RECURSIVE DeclaredTools(_)
DeclaredTools(servers) ==
    IF servers = <<>> THEN <<>>
    ELSE Head(servers).tools \o DeclaredTools(Tail(servers))

C10_SetupFailureBeforeModelCall ==
    /\ [][run.pc = "idle"
            => ((run'.outcome = "SystemExit")
                  <=> (/\ run.env.TELOS_PROVIDER # "ollama"
                       /\ run.env.ANTHROPIC_API_KEY \in {"absent", ""}))]_vars
    /\ [](run.outcome = "SystemExit" => (run.calls = <<>> /\ run.pc = "done"))
    /\ [](SetupFailed(run) => (run.calls = <<>> /\ run.outcome # "returned"))
    /\ [][SetupFailed(run)
            => /\ SetupFailed(run')
               /\ run'.next_server = run.next_server
               /\ Len(run'.stack) = Len(run.stack)]_vars
    /\ []((run.variant = "mcp" /\ run.calls # <<>>)
            => /\ run.next_server = Len(run.servers) + 1
               /\ Len(run.stack) = 2 * Len(run.servers)
               /\ run.mcp_tools = DeclaredTools(run.servers)
               /\ \A n \in DOMAIN run.calls :
                     run.calls[n].tools = ToolList(BUILTIN_TOOLS \o run.mcp_tools))

\* an external-tools invocation with an empty key, refused
C10_Witness ==
    /\ run.outcome = "SystemExit"
    /\ run.has_mcp /\ run.servers # <<>>
    /\ run.env.ANTHROPIC_API_KEY = ""
    /\ run.calls = <<>>

\* what the scheduling of one execution guarantees: a handler that can run
\* does run (the engine is one thread of straight-line code)
FairSpec == Spec /\ WF_vars(Next)

(***************************************************************************)
(* C5.  The two engine variants run the same per-round algorithm: on the   *)
(* same provider behaviour (provider calls that raise included) and with   *)
(* a transport that contributes no tools they make the same provider       *)
(* calls with the same arguments, build the same history and stream the    *)
(* same output.  The system instruction is compared by what it is (with    *)
(* tool guidance, or simplified), not by its wording.                      *)
(***************************************************************************)
SystemKind(system) ==
    IF system = SYSTEM_PLAIN THEN "simplified" ELSE "tool guidance"

SameCall(a, b) ==
    /\ SystemKind(a.system) = SystemKind(b.system)
    /\ a.tools = b.tools
    /\ a.turns = b.turns

C5_VariantsAgree ==
    (~InSetup(run) /\ ~InSetup(twin)) =>
        /\ Len(run.calls) = Len(twin.calls)
        /\ \A n \in DOMAIN run.calls : SameCall(run.calls[n], twin.calls[n])
        /\ run.messages = twin.messages
        /\ (run.pc = "done" /\ twin.pc = "done")
              => (run.out = twin.out /\ run.outcome = twin.outcome)

(***************************************************************************)
(* C11.  External-tools loop: a call whose name is a built-in name is      *)
(* executed by the built-in executor and is never handed to the transport, *)
(* also when a connected server advertises a tool of that name; a call of  *)
(* any other name is handed to the transport.                              *)
(***************************************************************************)
ExecutingTool(r) == r.pc = "tools" /\ Len(r.tool_results) < Len(r.tool_calls)

CurrentCall(r) == r.tool_calls[Len(r.tool_results) + 1]

BuiltinResults(name) == {execute_builtin_tool(name, fx) : fx \in {"ok", "raise"}}

C11_BuiltinsTakePrecedence ==
    /\ [](\A k \in DOMAIN run.sent : run.sent[k].name \notin builtin_names)
    /\ [][(ExecutingTool(run) /\ run.variant = "mcp")
            => LET tc == CurrentCall(run)
               IN  IF tc.name \in builtin_names
                   THEN /\ run'.sent = run.sent
                        /\ Len(run'.tool_results) = Len(run.tool_results) + 1
                        /\ \E res \in BuiltinResults(tc.name) :
                              run'.tool_results[Len(run'.tool_results)]
                                  = tool_result_block(tc, res)
                   ELSE run'.sent = Append(run.sent,
                            [name |-> tc.name,
                             session |-> SessionOf(run.tool_to_session, tc.name)])]_vars

\* a server advertises read_file, the model called read_file, and the
\* built-in executor answered
C11_Witness ==
    /\ run.variant = "mcp"
    /\ SessionOf(run.tool_to_session, "read_file") # 0
    /\ Len(run.messages) >= 3
    /\ run.messages[2].content[Len(run.messages[2].content)].name = "read_file"
    /\ run.messages[3].content[Len(run.messages[3].content)].content = <<"ok">>
    /\ run.sent = <<>>

(***************************************************************************)
(* C12.  The round limit is soft.  When all 20 rounds ask for tools, the   *)
(* tools of the 20th round are executed and their result turn is appended; *)
(* the loop then ends without a 21st provider call and without raising,    *)
(* and the run ends exactly like a natural completion: it returns, and     *)
(* skill_end is logged with error None.                                    *)
(***************************************************************************)
LastRound(r) == r.rounds = MaxRounds

\* every round appended its assistant turn: the history has the prompt, 19
\* pairs of turns and the assistant turn of the 20th round
AllRoundsAskedForTools(r) == Len(r.messages) >= 2 * MaxRounds

C12_RoundCapIsSoft ==
    /\ Len(run.calls) <= MaxRounds
    /\ (run.pc = "done" /\ AllRoundsAskedForTools(run)) =>
          /\ LastRound(run) /\ Len(run.calls) = MaxRounds
          /\ run.outcome = "returned" /\ run.error = "none"
          /\ Len(run.messages) = 1 + 2 * MaxRounds
          /\ run.messages[Len(run.messages)]
                = [role |-> "user", content |-> run.tool_results]
          /\ Len(run.tool_results) = Len(run.tool_calls)
          /\ run.log[Len(run.log)] = <<"skill_end", "None">>

(***************************************************************************)
(* C13.  The output channel receives every non-empty text fragment at the  *)
(* step that consumes its event, before any later event of the response,   *)
(* and nothing else but the newline written after the loop: the output is  *)
(* the fragments of all rounds in arrival order, followed by one trailing  *)
(* newline when the run returns.  A run that ends by raising has written   *)
(* its fragments and no newline.                                           *)
(***************************************************************************)
Newline == <<"\n">>

Newlines(out) == {i \in DOMAIN out : out[i] = Newline}

\* the last n elements of a sequence
Last(s, n) == SubSeq(s, Len(s) - n + 1, Len(s))

C13_OutputInArrivalOrder ==
    /\ [][(run.pc = "stream" /\ Head(run.events).type = "text")
            => /\ run'.events = Tail(run.events)
               /\ run'.out = IF Head(run.events).text # <<>>
                             THEN Append(run.out, Head(run.events).text)
                             ELSE run.out]_vars
    /\ [][run'.out # run.out
            => \/ run.pc = "stream" /\ Head(run.events).type = "text"
               \/ run.pc = "finish" /\ run'.out = Append(run.out, Newline)]_vars
    /\ [](run.pc \in {"stream", "tools"}
            => /\ Len(run.text_parts) <= Len(run.out)
               /\ Last(run.out, Len(run.text_parts)) = run.text_parts)
    /\ [](run.outcome = "returned" => Newlines(run.out) = {Len(run.out)})
    /\ [](run.outcome # "returned" => Newlines(run.out) = {})

\* C13 as stated: every run that called the provider ends with its output
\* closed by a single trailing newline
C13_NewlineEndsEveryRun ==
    (run.pc = "done" /\ run.calls # <<>>) => Newlines(run.out) = {Len(run.out)}

\* two rounds with text, returned: "a", "b" of the first response, "a" of
\* the second, and the newline
C13_Witness ==
    /\ run.outcome = "returned"
    /\ Len(run.calls) = 2
    /\ run.out = << <<"a">>, <<"b">>, <<"a">>, Newline >>

(***************************************************************************)
(* C14.  Dispatching an unknown tool name never raises.  The built-in      *)
(* executor answers any name outside the built-in set with an is_error     *)
(* result whose content starts with "Unknown tool", and call_tool answers  *)
(* any name without a route with an is_error result; the result is fed     *)
(* back as a tool_result block and the round goes on.                      *)
(***************************************************************************)
UnknownNames == {"ext_tool", "nope", ""}

ToolEffects == {"ok", "error", "raise"}

\* the call being executed names no tool of the executor it goes to
CallsUnknownTool(r) ==
    /\ ExecutingTool(r)
    /\ CurrentCall(r).name \notin builtin_names
    /\ r.variant = "mcp" => SessionOf(r.tool_to_session, CurrentCall(r).name) = 0

IsUnknownToolResult(result, name) ==
    /\ result.is_error
    /\ result.content = <<"Unknown tool: ", name>>

C14_UnknownToolIsErrorResult ==
    /\ [](\A name \in UnknownNames, fx \in ToolEffects :
            IsUnknownToolResult(execute_builtin_tool(name, fx), name))
    /\ [](\A name \in UnknownNames \cup builtin_names, fx \in ToolEffects :
            SessionOf(run.tool_to_session, name) = 0
                => /\ ~call_tool_raises(run.tool_to_session, name, fx)
                   /\ IsUnknownToolResult(
                          call_tool(run.tool_to_session, name, fx), name))
    /\ [][CallsUnknownTool(run)
            => /\ run'.pc = "tools" /\ run'.error = "none"
               /\ run'.tool_results = Append(run.tool_results,
                      [type |-> "tool_result",
                       tool_use_id |-> CurrentCall(run).id,
                       content |-> <<"Unknown tool: ", CurrentCall(run).name>>,
                       is_error |-> TRUE])]_vars

\* an external-tools run with no route for ext_tool: the call was answered
\* with the error result and the provider was called again
C14_Witness ==
    /\ run.variant = "mcp"
    /\ Len(run.calls) = 2
    /\ Len(run.sent) = 1 /\ run.sent[1].session = 0
    /\ run.messages[3].content[1].is_error
    /\ run.messages[3].content[1].content = <<"Unknown tool: ", "ext_tool">>

(***************************************************************************)
(* connect_mcp_servers on its own: declarations with every transport tag   *)
(* and with disjoint and overlapping tool names.                           *)
(***************************************************************************)
TransportTypes == {"sse", "http", "streamable-http", "absent"}

AdvertisedTools == {<<"t1">>, <<"t2", "t3">>, <<"t3">>}

DeclaredServers ==
    [name : {"a", "b", "c"}, type : TransportTypes, tools : AdvertisedTools]

Declarations ==
    {c \in SeqsUpTo(DeclaredServers, MaxServers) :
        \A i, j \in DOMAIN c : c[i].name = c[j].name => i = j}

ConnectInit ==
    /\ \E config \in Declarations :
          run = execute_skill(Invocation(
                    [TELOS_PROVIDER |-> "ollama", ANTHROPIC_API_KEY |-> "absent"],
                    TRUE, config))
    /\ twin = Idle
    /\ backend = Unused /\ shell = Unused /\ bot = Unused
    /\ router = Unused /\ store = Unused /\ chunker = Unused

ConnectNext ==
    \/ ConnectServer
    \/ McpSetup
    \/ ExitStack
    \/ ExceptClause

SpecConnect == ConnectInit /\ [][ConnectNext]_vars

(***************************************************************************)
(* C15.  connect_mcp_servers opens one connection per declared server,     *)
(* with the SSE connector exactly for the servers of type "sse" and the    *)
(* streamable-HTTP connector for every other server.  When the tool names  *)
(* of the servers are disjoint, the catalog holds every tool of every      *)
(* server and the routing table maps each name to the session of the       *)
(* server that advertised it.                                              *)
(***************************************************************************)
DisjointNames(servers) ==
    \A i, j \in DOMAIN servers :
        i # j => Range(servers[i].tools) \cap Range(servers[j].tools) = {}

\* the entries of the exit stack that are transports
Transports(stack) == {k \in DOMAIN stack : stack[k].ctx # "ClientSession"}

C15_ConnectorsAndCatalog ==
    /\ \A k \in Transports(run.stack) :
          run.stack[k].ctx =
              IF run.servers[run.stack[k].server].type = "sse"
              THEN "sse_client" ELSE "streamablehttp_client"
    /\ \A k, l \in Transports(run.stack) :
          run.stack[k].server = run.stack[l].server => k = l
    /\ run.pc = "loop" =>
          /\ {run.stack[k].server : k \in Transports(run.stack)}
                 = DOMAIN run.servers
          /\ run.mcp_tools = DeclaredTools(run.servers)
          /\ DisjointNames(run.servers) =>
                \A i \in DOMAIN run.servers :
                    \A n \in DOMAIN run.servers[i].tools :
                        LET name == run.servers[i].tools[n]
                            session == SessionOf(run.tool_to_session, name)
                        IN  /\ Cardinality({k \in DOMAIN run.mcp_tools :
                                    run.mcp_tools[k] = name}) = 1
                            /\ session = i
                            /\ run.stack[2 * i].ctx = "ClientSession"
                            /\ run.stack[2 * i].server = i

\* an SSE server and a server without a type, with disjoint tools, both
\* connected
C15_Witness ==
    /\ run.pc = "loop"
    /\ Len(run.servers) = 2
    /\ run.servers[1].type = "sse" /\ run.servers[2].type = "absent"
    /\ run.stack[1].ctx = "sse_client"
    /\ run.stack[3].ctx = "streamablehttp_client"
    /\ run.mcp_tools = <<"t1", "t2", "t3">>

(***************************************************************************)
(* The provider backends (provider.py): stream_completion as a generator.  *)
(* `backend` holds the generator's locals and the events it has yielded.   *)
(***************************************************************************)
\* StreamEvent(type="done", stop_reason=...)
DoneWith(stop_reason) ==
    [type |-> "done", text |-> <<>>, tool_call |-> NoCall,
     stop_reason |-> stop_reason]

\* the generator at its first statement; `received` lists the tool-call
\* deltas the stream has delivered, in arrival order
Generator(kind) ==
    [kind |-> kind, pc |-> "stream", events |-> <<>>, chunks |-> 0,
     tool_calls_accum |-> <<>>, flushed |-> 0, stop_reason |-> "stop",
     final |-> <<>>, late_text |-> FALSE, received |-> <<>>]

\* tc_delta of a chunk; "" stands for a field that is None or empty
Deltas ==
    [index : {0, 1}, id : {"", "call_1"}, name : {"", "f"},
     arguments : {"", "[1", "]"}]

\* a chunk without choices
NoChoice ==
    [choice |-> FALSE, content |-> <<>>, tool_calls |-> <<>>,
     finish_reason |-> ""]

Chunks ==
    {NoChoice} \cup
    [choice : {TRUE}, content : {<<>>, <<"x">>},
     tool_calls : SeqsUpTo(Deltas, MaxDeltas), finish_reason : {"", "stop"}]

\* apply_delta assigning the argument fragment (`=` for `+=`)
apply_delta_overwriting(accum, d) ==
    LET known == \E k \in DOMAIN accum : accum[k].index = d.index
        base == IF known THEN accum
                ELSE Append(accum, [index |-> d.index, id |-> d.id,
                                    name |-> "", arguments |-> <<>>])
        k == CHOOSE k \in DOMAIN base : base[k].index = d.index
    IN  [base EXCEPT ![k] =
            [@ EXCEPT !.id = IF d.id # "" THEN d.id ELSE @,
                      !.name = IF d.name # "" THEN d.name ELSE @,
                      !.arguments = IF d.arguments # ""
                                    THEN <<d.arguments>> ELSE @]]

\* the body of `for tc_delta in delta.tool_calls`; tool_calls_accum is kept
\* in insertion order, as the dict is
apply_delta(accum, d) ==
    LET known == \E k \in DOMAIN accum : accum[k].index = d.index
        base == IF known THEN accum
                ELSE Append(accum, [index |-> d.index, id |-> d.id,
                                    name |-> "", arguments |-> <<>>])
        k == CHOOSE k \in DOMAIN base : base[k].index = d.index
    IN  [base EXCEPT ![k] =
            [@ EXCEPT !.id = IF d.id # "" THEN d.id ELSE @,
                      !.name = IF d.name # "" THEN d.name ELSE @,
                      !.arguments = IF d.arguments # ""
                                    THEN Append(@, d.arguments) ELSE @]]

RECURSIVE apply_deltas(_, _)
apply_deltas(accum, deltas) ==
    IF deltas = <<>> THEN accum
    ELSE apply_deltas(apply_delta(accum, Head(deltas)), Tail(deltas))

\* json.loads of the accumulated fragments, {} when they are empty or not
\* valid JSON
parse_arguments(arguments) ==
    IF arguments = <<"[1", "]">> THEN "[1]" ELSE "{}"

\* the ToolCall yielded for an accumulated entry
accumulated_call(tc_data) ==
    [id |-> tc_data.id, name |-> tc_data.name,
     arguments |-> parse_arguments(tc_data.arguments)]

\* ollama_chunk yielding a tool call as soon as its first delta arrives,
\* instead of after the stream
ollama_chunk_eager(b, chunk) ==
    IF ~chunk.choice THEN [b EXCEPT !.chunks = @ + 1]
    ELSE LET accum == apply_deltas(b.tool_calls_accum, chunk.tool_calls)
             fresh == SubSeq(accum, Len(b.tool_calls_accum) + 1, Len(accum))
         IN  [b EXCEPT
                !.chunks = @ + 1,
                !.events = (IF chunk.content # <<>>
                            THEN Append(@, TextEvent(chunk.content)) ELSE @)
                    \o [i \in 1..Len(fresh) |->
                           ToolCallEvent(accumulated_call(fresh[i]))],
                !.tool_calls_accum = accum,
                !.received = @ \o chunk.tool_calls,
                !.flushed = Len(accum),
                !.stop_reason = IF chunk.finish_reason # ""
                                THEN chunk.finish_reason ELSE @]

\* OllamaProvider.stream_completion: the body of `for chunk in stream`
ollama_chunk(b, chunk) ==
    IF ~chunk.choice THEN [b EXCEPT !.chunks = @ + 1]
    ELSE [b EXCEPT
            !.chunks = @ + 1,
            !.events = IF chunk.content # <<>>
                       THEN Append(@, TextEvent(chunk.content)) ELSE @,
            !.late_text = @ \/ (chunk.content # <<>>
                                  /\ b.tool_calls_accum # <<>>),
            !.tool_calls_accum = apply_deltas(@, chunk.tool_calls),
            !.received = @ \o chunk.tool_calls,
            !.stop_reason = IF chunk.finish_reason # ""
                            THEN chunk.finish_reason ELSE @]

\* the chunk stream is exhausted
ollama_stream_end(b) == [b EXCEPT !.pc = "flush"]

\* one iteration of `for tc_data in tool_calls_accum.values()`
ollama_yield_call(b) ==
    [b EXCEPT !.flushed = @ + 1,
              !.events = Append(@, ToolCallEvent(
                  accumulated_call(b.tool_calls_accum[b.flushed + 1])))]

\* the last yield of both backends
yield_done(b) ==
    [b EXCEPT !.events = Append(@, DoneWith(b.stop_reason)), !.pc = "done"]

\* AnthropicProvider.stream_completion: `for text_chunk in stream.text_stream`
anthropic_text(b, text_chunk) ==
    [b EXCEPT !.chunks = @ + 1, !.events = Append(@, TextEvent(text_chunk))]

\* final = stream.get_final_message()
anthropic_final(b, content, stop_reason) ==
    [b EXCEPT !.final = content, !.stop_reason = stop_reason, !.pc = "final"]

\* one iteration of `for block in final.content`
anthropic_block(b) ==
    LET block == Head(b.final)
    IN  [b EXCEPT !.final = Tail(@),
                  !.events = IF block.type = "tool_use"
                             THEN Append(@, ToolCallEvent(
                                     [id |-> block.id, name |-> block.name,
                                      arguments |-> block.input]))
                             ELSE @]

\* the content blocks of a final message
FinalBlocks ==
    {[type |-> "text", id |-> "", name |-> "", input |-> ""],
     [type |-> "tool_use", id |-> "call_1", name |-> "f", input |-> "[1]"],
     [type |-> "tool_use", id |-> "call_2", name |-> "g", input |-> "{}"]}

beside_backend == <<run, twin, shell, bot, router, store, chunker>>

BackendInit ==
    /\ backend \in {Generator("ollama"), Generator("anthropic")}
    /\ run = Idle /\ twin = Idle
    /\ shell = Unused /\ bot = Unused
    /\ router = Unused /\ store = Unused /\ chunker = Unused

OllamaChunk ==
    /\ backend.kind = "ollama" /\ backend.pc = "stream"
    /\ backend.chunks < MaxChunks
    /\ \E chunk \in Chunks : backend' = ollama_chunk(backend, chunk)
    /\ UNCHANGED beside_backend

OllamaStreamEnd ==
    /\ backend.kind = "ollama" /\ backend.pc = "stream"
    /\ backend' = ollama_stream_end(backend)
    /\ UNCHANGED beside_backend

OllamaYieldCall ==
    /\ backend.kind = "ollama" /\ backend.pc = "flush"
    /\ backend.flushed < Len(backend.tool_calls_accum)
    /\ backend' = ollama_yield_call(backend)
    /\ UNCHANGED beside_backend

OllamaDone ==
    /\ backend.kind = "ollama" /\ backend.pc = "flush"
    /\ backend.flushed >= Len(backend.tool_calls_accum)
    /\ backend' = yield_done(backend)
    /\ UNCHANGED beside_backend

AnthropicText ==
    /\ backend.kind = "anthropic" /\ backend.pc = "stream"
    /\ backend.chunks < MaxChunks
    /\ \E text_chunk \in {<<>>, <<"x">>} :
          backend' = anthropic_text(backend, text_chunk)
    /\ UNCHANGED beside_backend

AnthropicFinal ==
    /\ backend.kind = "anthropic" /\ backend.pc = "stream"
    /\ \E content \in SeqsUpTo(FinalBlocks, MaxCalls),
          stop_reason \in {"end_turn", "tool_use"} :
          backend' = anthropic_final(backend, content, stop_reason)
    /\ UNCHANGED beside_backend

AnthropicBlock ==
    /\ backend.kind = "anthropic" /\ backend.pc = "final"
    /\ backend.final # <<>>
    /\ backend' = anthropic_block(backend)
    /\ UNCHANGED beside_backend

AnthropicDone ==
    /\ backend.kind = "anthropic" /\ backend.pc = "final"
    /\ backend.final = <<>>
    /\ backend' = yield_done(backend)
    /\ UNCHANGED beside_backend

\* the API call or the stream raises: the generator ends without a done
\* event
StreamRaises ==
    /\ backend.pc = "stream"
    /\ backend' = [backend EXCEPT !.pc = "raised"]
    /\ UNCHANGED beside_backend

BackendNext ==
    \/ OllamaChunk
    \/ OllamaStreamEnd
    \/ OllamaYieldCall
    \/ OllamaDone
    \/ AnthropicText
    \/ AnthropicFinal
    \/ AnthropicBlock
    \/ AnthropicDone
    \/ StreamRaises

SpecBackend == BackendInit /\ [][BackendNext]_vars

(***************************************************************************)
(* C16.  Every complete streaming response of a backend is zero or more    *)
(* text events, then zero or more tool_call events, then exactly one done  *)
(* event, the last.  For the compatibility backend this holds for every    *)
(* chunk sequence, also when text deltas arrive after tool-call deltas.    *)
(***************************************************************************)
\* text events, then tool_call events, then one done event
StreamShape(events) ==
    /\ events # <<>>
    /\ events[Len(events)].type = "done"
    /\ \A k \in 1..(Len(events) - 1) : events[k].type \in {"text", "tool_call"}
    /\ \A k, l \in 1..(Len(events) - 1) :
          (k < l /\ events[k].type = "tool_call") => events[l].type = "tool_call"

C16_TextThenCallsThenDone ==
    /\ backend.pc = "done" => StreamShape(backend.events)
    /\ backend.pc \in {"stream", "flush", "final", "raised"} =>
          /\ \A k \in DOMAIN backend.events : backend.events[k].type # "done"
          /\ \A k, l \in DOMAIN backend.events :
                (k < l /\ backend.events[k].type = "tool_call")
                    => backend.events[l].type = "tool_call"

\* the compatibility backend received a text delta after a tool-call delta
\* and completed with a text event and a tool_call event
C16_Witness ==
    /\ backend.kind = "ollama" /\ backend.pc = "done"
    /\ backend.late_text
    /\ Len(backend.events) = 3
    /\ backend.events[1].type = "text"
    /\ backend.events[2].type = "tool_call"

(***************************************************************************)
(* OllamaProvider._convert_messages: the native history in the wire format *)
(* of the compatibility backend.                                           *)
(***************************************************************************)
\* isinstance(msg.get("content"), list): in a history of the engine every
\* turn but the first, the prompt, has a list of blocks as content
content_is_list(messages, i) == i > 1

\* the function-call object of a tool_use block
function_call(block) ==
    [id |-> block.id, type |-> "function", function |-> [name |-> block.name]]

\* the tool-role message of a tool_result block
tool_message(block) ==
    [role |-> "tool", tool_call_id |-> block.tool_use_id,
     content |-> block.content]

\* `text = block["text"]` for every text block: the last one is kept; the
\* empty text stands for None (`text or None`)
last_text(content) ==
    LET texts == BlocksOfType(content, "text")
    IN  IF texts = <<>> THEN <<>> ELSE texts[Len(texts)].text

convert_assistant(msg) ==
    LET uses == BlocksOfType(msg.content, "tool_use")
        tool_calls == [k \in 1..Len(uses) |-> function_call(uses[k])]
    IN  IF tool_calls # <<>>
        THEN <<[role |-> "assistant", content |-> last_text(msg.content),
                tool_calls |-> tool_calls]>>
        ELSE <<[role |-> "assistant", content |-> last_text(msg.content)]>>

\* convert_tool_results with the results of a turn merged into one
\* tool-role message, keyed by the first result
convert_tool_results_merged(msg) ==
    LET results == BlocksOfType(msg.content, "tool_result")
    IN  IF results = <<>> THEN <<>>
        ELSE <<[role |-> "tool", tool_call_id |-> results[1].tool_use_id,
                content |-> Flatten([k \in 1..Len(results) |->
                                        results[k].content])]>>

convert_tool_results(msg) ==
    LET results == BlocksOfType(msg.content, "tool_result")
    IN  [k \in 1..Len(results) |-> tool_message(results[k])]

\* the body of `for msg in messages`
convert_message(messages, i) ==
    IF content_is_list(messages, i) /\ messages[i].role = "assistant"
    THEN convert_assistant(messages[i])
    ELSE IF content_is_list(messages, i) /\ messages[i].role = "user"
    THEN convert_tool_results(messages[i])
    ELSE <<messages[i]>>

convert_messages(system, messages) ==
    <<[role |-> "system", content |-> system]>>
        \o Flatten([i \in 1..Len(messages) |-> convert_message(messages, i)])

(***************************************************************************)
(* C17.  The translator preserves call correlation.  For every assistant   *)
(* turn with tool_use blocks that is followed by its tool-result turn, the *)
(* output holds one assistant message with one function call per block     *)
(* (same ids, same order), followed by one tool-role message per           *)
(* tool_result block (same order) whose tool_call_id is the id of the      *)
(* function call of the same position.  The output begins with the only    *)
(* system message and keeps the order of the turns.  Checked on every      *)
(* history the engine hands to a provider.                                 *)
(***************************************************************************)
\* stream_completion has just been called with run.system and run.messages
JustCalled(r) == r.pc = "stream" /\ r.text_parts = <<>> /\ r.tool_calls = <<>>

\* the number of output messages a turn is translated to
RECURSIVE WireSize(_, _)
WireSize(messages, n) ==
    IF n = 0 THEN 0
    ELSE WireSize(messages, n - 1)
           + (IF n > 1 /\ messages[n].role = "user"
              THEN Len(messages[n].content) ELSE 1)

C17_TranslationKeepsCorrelation ==
    JustCalled(run) =>
    LET wire == convert_messages(run.system, run.messages)
    IN  /\ wire[1] = [role |-> "system", content |-> run.system]
        /\ \A p \in 2..Len(wire) : wire[p].role # "system"
        /\ Len(wire) = 1 + WireSize(run.messages, Len(run.messages))
        /\ \A i \in AssistantTurns(run.messages) :
              LET uses == BlocksOfType(run.messages[i].content, "tool_use")
                  p == 1 + WireSize(run.messages, i)
              IN  (uses # <<>> /\ i + 1 <= Len(run.messages)) =>
                    LET results == run.messages[i + 1].content
                    IN  /\ wire[p].role = "assistant"
                        /\ Len(wire[p].tool_calls) = Len(uses)
                        /\ \A k \in DOMAIN uses :
                              /\ wire[p].tool_calls[k].id = uses[k].id
                              /\ wire[p].tool_calls[k].function.name
                                    = uses[k].name
                        /\ Len(results) = Len(uses)
                        /\ \A k \in DOMAIN results :
                              /\ wire[p + k].role = "tool"
                              /\ wire[p + k].tool_call_id
                                    = results[k].tool_use_id
                              /\ wire[p + k].tool_call_id
                                    = wire[p].tool_calls[k].id
                              /\ wire[p + k].content = results[k].content
                        /\ p + Len(results) < Len(wire)
                              => wire[p + Len(results) + 1].role = "assistant"

\* a history with a turn of two calls and its two results, and a second
\* round after it
C17_Witness ==
    /\ JustCalled(run)
    /\ Len(run.messages) = 5
    /\ Len(run.messages[3].content) = 2
    /\ run.messages[3].content[1].tool_use_id # run.messages[3].content[2].tool_use_id
    /\ Len(convert_messages(run.system, run.messages)) = 7

(***************************************************************************)
(* run_command (executor.py, _execute_builtin_tool).  `shell` is one       *)
(* invocation: what the command does, and the ToolResult returned.         *)
(***************************************************************************)
\* a command that ran to completion
Completed ==
    [fault : {"none"}, stdout : {"", "out", "out\n"}, stderr : {"", "err"},
     returncode : (-MaxExitCode)..MaxExitCode]

\* an execution that fails: subprocess.run raises TimeoutExpired after 60
\* seconds, with stdout and stderr what the command wrote until then; or
\* the command is not started, because subprocess.run raises OSError or
\* arguments has no "command"
Failed ==
    [fault : {"timed out after 60 seconds"},
     stdout : {"", "out", "out\n"}, stderr : {"", "err"}, returncode : {0}]
    \cup [fault : {"OSError", "KeyError"},
          stdout : {""}, stderr : {""}, returncode : {0}]

ShellCall(proc, command_cwd) ==
    [pc |-> "call", proc |-> proc, command_cwd |-> command_cwd,
     run_cwd |-> "", result |-> ToolResult(<<>>, FALSE)]

\* output, as the pieces it is concatenated from
command_output(proc) ==
    (IF proc.stdout # "" THEN <<proc.stdout>> ELSE <<>>)
        \o (IF proc.stderr # "" THEN <<"\n[stderr]\n", proc.stderr>> ELSE <<>>)
        \o (IF proc.returncode # 0
            THEN <<"\n[exit code: ", ToString(proc.returncode), "]">>
            ELSE <<>>)

\* run_command without the enclosing try/except: a failed execution leaves
\* the executor as an exception
run_command_uncaught(sh) ==
    LET run_cwd == IF sh.command_cwd # "None" THEN sh.command_cwd ELSE "cwd"
    IN  IF sh.proc.fault # "none"
        THEN [sh EXCEPT !.pc = "raised", !.run_cwd = run_cwd]
        ELSE [sh EXCEPT
                !.pc = "returned", !.run_cwd = run_cwd,
                !.result = ToolResult(
                    IF command_output(sh.proc) = <<>> THEN <<"(no output)">>
                    ELSE command_output(sh.proc),
                    sh.proc.returncode # 0)]

\* the run_command branch inside try/except Exception
run_command(sh) ==
    LET run_cwd == IF sh.command_cwd # "None" THEN sh.command_cwd ELSE "cwd"
    IN  IF sh.proc.fault # "none"
        \* except Exception as e: content=str(e), is_error=True
        THEN [sh EXCEPT !.pc = "returned",
                        !.run_cwd = run_cwd,
                        !.result = ToolResult(<<sh.proc.fault>>, TRUE)]
        ELSE [sh EXCEPT
                !.pc = "returned", !.run_cwd = run_cwd,
                !.result = ToolResult(
                    IF command_output(sh.proc) = <<>> THEN <<"(no output)">>
                    ELSE command_output(sh.proc),
                    sh.proc.returncode # 0)]

beside_shell == <<run, twin, backend, bot, router, store, chunker>>

ShellInit ==
    /\ \E proc \in Completed \cup Failed, command_cwd \in {"None", "pack_dir"} :
          shell = ShellCall(proc, command_cwd)
    /\ run = Idle /\ twin = Idle
    /\ backend = Unused /\ bot = Unused
    /\ router = Unused /\ store = Unused /\ chunker = Unused

RunCommand ==
    /\ shell.pc = "call"
    /\ shell' = run_command(shell)
    /\ UNCHANGED beside_shell

ShellNext == RunCommand

SpecShell == ShellInit /\ [][ShellNext]_vars

(***************************************************************************)
(* C18.  run_command never raises and folds every outcome into its         *)
(* result.  is_error is true exactly when the command exits non-zero, and  *)
(* content then holds the exit code, or when the execution itself fails.   *)
(* The stderr output of a command that ran to completion is in content     *)
(* whenever it is non-empty, also with exit code 0 and is_error false.     *)
(* When the execution fails, content is the text of the exception and      *)
(* holds nothing the command wrote.                                        *)
(***************************************************************************)
C18_RunCommandFoldsOutcome ==
    /\ shell.pc # "raised"
    /\ shell.pc = "returned" =>
          LET proc == shell.proc
              result == shell.result
          IN  /\ result.is_error <=> (proc.fault # "none" \/ proc.returncode # 0)
              /\ result.content # <<>>
              /\ (proc.fault = "none" /\ proc.returncode # 0)
                    => \E k \in DOMAIN result.content :
                          /\ k > 1
                          /\ result.content[k - 1] = "\n[exit code: "
                          /\ result.content[k] = ToString(proc.returncode)
              /\ (proc.fault = "none" /\ proc.stderr # "")
                    => \E k \in DOMAIN result.content :
                          /\ k > 1
                          /\ result.content[k - 1] = "\n[stderr]\n"
                          /\ result.content[k] = proc.stderr
              /\ proc.fault # "none" => result.content = <<proc.fault>>

\* C18 as stated: stderr output is in content whenever it is non-empty
C18_StderrAlwaysIncluded ==
    (shell.pc = "returned" /\ shell.proc.stderr # "")
        => shell.proc.stderr \in Range(shell.result.content)

\* a command that wrote to stderr and exited with 0
C18_Witness ==
    /\ shell.pc = "returned"
    /\ shell.proc.fault = "none" /\ shell.proc.returncode = 0
    /\ shell.proc.stderr = "err"
    /\ ~shell.result.is_error
    /\ shell.result.content = <<"\n[stderr]\n", "err">>

(***************************************************************************)
(* Two executions in different processes' positions.  `run` is the first   *)
(* execution of a process.  `twin` is an execution in a process that has   *)
(* already completed an earlier one: it starts from everything the earlier *)
(* execution left behind, with only the arguments of the call replaced, so *)
(* that whatever the engine does not set anew is carried over.  Both are   *)
(* called with the same arguments and take every step together, reading    *)
(* the same provider response and the same tool effect.  The output        *)
(* channel, the log, and the records `calls` and `sent` go on from where   *)
(* the earlier execution left them.                                        *)
(***************************************************************************)
\* the response a scripted provider gives to the n-th call of an execution
ResponseAt(script, n) ==
    IF n <= Len(script) THEN script[n] ELSE <<TextEvent(<<"a">>), DoneEvent>>

\* an execution driven to its end by a scripted provider
RECURSIVE Execute(_, _)
Execute(r, script) ==
    IF r.pc = "done" THEN r
    ELSE Execute(Advance(r, ResponseAt(script, r.rounds + 1), "ok"), script)

\* what the earlier execution was given: a plain answer; a failure and the
\* answer to the retry; a round of tools; two failures; an external call
EarlierScripts ==
    {<<>>,
     << <<RaiseEvent>> >>,
     << <<TextEvent(<<"b">>), ToolCallEvent(PlainCall), DoneEvent>> >>,
     << <<RaiseEvent>>, <<RaiseEvent>> >>,
     << <<ToolCallEvent([id |-> "", name |-> "ext_tool"]), DoneEvent>> >>}

OllamaEnv == [TELOS_PROVIDER |-> "ollama", ANTHROPIC_API_KEY |-> "absent"]

ServerA == [name |-> "a", type |-> "sse", tools |-> <<"ext_tool">>]

EarlierInvocations ==
    {Invocation(OllamaEnv, FALSE, <<>>), Invocation(OllamaEnv, TRUE, <<ServerA>>)}

\* the states earlier executions end in
Leftovers ==
    {Execute(inv, script) : inv \in EarlierInvocations, script \in EarlierScripts}

\* execute_skill is called again: new arguments, everything else as it was
Reenter(prev, inv) ==
    [prev EXCEPT !.pc = "idle", !.env = inv.env, !.has_mcp = inv.has_mcp,
                 !.servers = inv.servers]

TwiceInvocations ==
    {Invocation(OllamaEnv, FALSE, <<>>),
     Invocation(OllamaEnv, TRUE, <<>>),
     Invocation(OllamaEnv, TRUE, <<ServerA>>),
     Invocation(NoEnv, FALSE, <<>>)}

TwiceInit ==
    /\ \E inv \in TwiceInvocations, prev \in Leftovers :
          /\ run = inv
          /\ twin = Reenter(prev, inv)
    /\ backend = Unused /\ shell = Unused /\ bot = Unused
    /\ router = Unused /\ store = Unused /\ chunker = Unused

\* the responses of the provider both executions are driven by: pure text
\* in several fragments or none, a plain tool call, a failure
TwiceResponses ==
    PlainResponses
        \cup {EventsOf(ts, <<>>) \o <<DoneEvent>> : ts \in TextScripts}

\* one step of both executions on the same inputs
TwiceStep ==
    /\ run.pc # "done"
    /\ \E response \in IF run.pc = "loop" THEN TwiceResponses
                         ELSE {<<DoneEvent>>},
          fx \in IF ExecutingTool(run) THEN Effects(run, CurrentCall(run))
                 ELSE {"ok"} :
          /\ run' = Advance(run, response, fx)
          /\ twin' = Advance(twin, response, fx)
    /\ UNCHANGED beside_pair

TwiceNext == TwiceStep

SpecTwice == TwiceInit /\ [][TwiceNext]_vars

(***************************************************************************)
(* C19.  Executions are deterministic and independent.  An execution that  *)
(* follows an earlier one behaves, on the same provider script, exactly as *)
(* a first execution does: it streams the same output, and its history,    *)
(* tool catalog, system instruction (degraded or not), round and tool-call *)
(* counters and connections are those of the first execution at every      *)
(* step, whatever the earlier execution left behind.  Only the log (and    *)
(* the output channel itself) goes on from the earlier execution.          *)
(***************************************************************************)
\* b is where a is, with the same values in everything the engine reads
SameProgress(a, b) ==
    /\ b.pc = a.pc
    /\ b.outcome = a.outcome
    /\ a.outcome # "SystemExit" =>
          /\ b.variant = a.variant
          /\ b.error = a.error /\ b.pending = a.pending
          /\ b.rounds = a.rounds /\ b.n_tool_calls = a.n_tool_calls
          /\ a.variant = "mcp" =>
                /\ b.stack = a.stack /\ b.closed = a.closed
                /\ b.mcp_tools = a.mcp_tools
                /\ b.tool_to_session = a.tool_to_session
                /\ b.next_server = a.next_server
          /\ a.pc # "connect" =>
                /\ b.system = a.system
                /\ b.tools = a.tools
                /\ b.messages = a.messages
          /\ a.pc \in {"stream", "tools"} =>
                /\ b.events = a.events
                /\ b.text_parts = a.text_parts
                /\ b.tool_calls = a.tool_calls
          /\ a.pc = "tools" => b.tool_results = a.tool_results

\* s ends with t
EndsWith(s, t) == Len(t) <= Len(s) /\ Last(s, Len(t)) = t

C19_ExecutionsIndependent ==
    /\ [](run.pc # "idle" => SameProgress(run, twin))
    /\ [](/\ EndsWith(twin.out, run.out)
          /\ EndsWith(twin.calls, run.calls)
          /\ EndsWith(twin.handed, run.handed)
          /\ EndsWith(twin.log, run.log)
          /\ EndsWith(twin.sent, run.sent))
    /\ [][/\ Len(twin'.out) - Len(run'.out) = Len(twin.out) - Len(run.out)
          /\ Len(twin'.calls) - Len(run'.calls)
                = Len(twin.calls) - Len(run.calls)
          /\ Len(twin'.log) - Len(run'.log) = Len(twin.log) - Len(run.log)
          /\ Len(twin'.sent) - Len(run'.sent)
                = Len(twin.sent) - Len(run.sent)]_vars

\* after an execution that had dropped its tools, the next one was given a
\* pure-text response in fragments: it called the provider once, with the
\* catalog, and streamed what a first execution streams
C19_Witness ==
    /\ run.outcome = "returned" /\ twin.outcome = "returned"
    /\ run.variant = "simple"
    /\ Len(run.calls) = 1 /\ Len(twin.calls) = 3
    /\ twin.calls[2].tools.none
    /\ twin.calls[3].tools = ToolList(BUILTIN_TOOLS)
    /\ run.out = << <<"a">>, <<"b">>, Newline >>
    /\ twin.out = << <<"a">>, Newline, <<"a">>, <<"b">>, Newline >>

(***************************************************************************)
(* The Discord front end (discord_bot.py).  Every message is handled by    *)
(* its own on_message coroutine on the one event loop; _run_skill runs in  *)
(* a worker thread (asyncio.to_thread).  `bot` holds the position of each  *)
(* handler, the state of _execution_lock (an asyncio.Lock: the flag, the   *)
(* queue of waiters, and the waiters whose future has been set), the       *)
(* messages whose _run_skill is in progress, and the order in which        *)
(* executions started and ended.  sys.stdout is one name of the process:   *)
(* `stdout` is the stream it is bound to, 0 for the original stream and m  *)
(* for the StringIO of message m's _run_skill; `buf` and `console` hold    *)
(* what was written to each stream, every write with the writer's name.    *)
(* A text is the sequence of the writes that make it up, and a write is a  *)
(* piece of n characters: newlines when its text is "\n", and no newline   *)
(* otherwise.  `how` is the way the execution of each message ended,       *)
(* `send_raised` the messages one of whose sends raised, and `stopped`     *)
(* whether the event loop has been stopped.                                *)
(***************************************************************************)
Messages == 1..MaxMessages

\* _chunk_message(text, limit=1900)
DefaultLimit == 1900

Piece(text, n) == [text |-> text, n |-> n]

Original == 0
Unset == 0 - 1

BotStart ==
    [pc |-> [m \in Messages |-> "absent"],
     locked |-> FALSE, waiters |-> <<>>, woken |-> {},
     running |-> {}, result |-> [m \in Messages |-> <<>>],
     stdout |-> Original, old_stdout |-> [m \in Messages |-> Unset],
     buf |-> [m \in Messages |-> <<>>], console |-> <<>>,
     written |-> [m \in Messages |-> 0], readies |-> 0,
     sent |-> [m \in Messages |-> <<>>],
     how |-> [m \in Messages |-> "none"], send_raised |-> {},
     stopped |-> FALSE,
     trace |-> <<>>]

\* sys.stdout.write(text), by the skill of message `by` or by a callback
\* (by = 0): the text goes to the stream the name is bound to at that moment
stdout_write(b, by, piece) ==
    LET w == [by |-> by, text |-> piece.text, n |-> piece.n]
    IN  IF b.stdout = Original
        THEN [b EXCEPT !.console = Append(@, w)]
        ELSE [b EXCEPT !.buf[b.stdout] = Append(@, w)]

\* str.strip, on a text whose only whitespace is the write "\n"
RECURSIVE lstrip(_)
lstrip(t) ==
    IF t # <<>> /\ Head(t).text = "\n" THEN lstrip(Tail(t)) ELSE t

RECURSIVE rstrip(_)
rstrip(t) ==
    IF t # <<>> /\ t[Len(t)].text = "\n"
    THEN rstrip(SubSeq(t, 1, Len(t) - 1)) ELSE t

strip(t) == rstrip(lstrip(t))

\* len(text)
RECURSIVE text_len(_)
text_len(t) == IF t = <<>> THEN 0 ELSE Head(t).n + text_len(Tail(t))

\* text[:k]
RECURSIVE text_take(_, _)
text_take(t, k) ==
    IF k = 0 \/ t = <<>> THEN <<>>
    ELSE IF Head(t).n <= k
    THEN <<Head(t)>> \o text_take(Tail(t), k - Head(t).n)
    ELSE <<[Head(t) EXCEPT !.n = k]>>

\* text[k:]
RECURSIVE text_drop(_, _)
text_drop(t, k) ==
    IF k = 0 \/ t = <<>> THEN t
    ELSE IF Head(t).n <= k THEN text_drop(Tail(t), k - Head(t).n)
    ELSE <<[Head(t) EXCEPT !.n = @ - k]>> \o Tail(t)

\* text.rfind("\n", 0, limit) on the text that starts at index `from`: the
\* highest index below `limit` that holds a newline, or -1
RECURSIVE text_rfind_newline(_, _, _)
text_rfind_newline(t, from, limit) ==
    IF t = <<>> \/ from >= limit THEN 0 - 1
    ELSE LET later == text_rfind_newline(Tail(t), from + Head(t).n, limit)
             last == from + Head(t).n - 1
         IN  IF later # 0 - 1 THEN later
             ELSE IF Head(t).text = "\n"
             THEN (IF last < limit THEN last ELSE limit - 1)
             ELSE 0 - 1

\* the loop of _chunk_message
RECURSIVE chunk_text_loop(_, _)
chunk_text_loop(t, limit) ==
    IF t = <<>> THEN <<>>
    ELSE IF text_len(t) <= limit THEN <<t>>
    ELSE LET found == text_rfind_newline(t, 0, limit)
             split == IF found = 0 - 1 THEN limit ELSE found
         IN  <<text_take(t, split)>>
                \o chunk_text_loop(lstrip(text_drop(t, split)), limit)

\* _chunk_message on a text of pieces
chunk_text(t, limit) ==
    IF text_len(t) <= limit THEN <<t>> ELSE chunk_text_loop(t, limit)

\* on_message up to the lock: the bot's own messages, other channels and
\* empty texts are dropped
on_message(b, m, kind) ==
    [b EXCEPT !.pc[m] = IF kind = "request" THEN "acquire" ELSE "ignored"]

\* lock_acquire with a lock made for each message: it is always free
lock_acquire_per_message(b, m) == [b EXCEPT !.pc[m] = "typing"]

\* `async with _execution_lock`: Lock.acquire up to its await
lock_acquire(b, m) ==
    IF ~b.locked /\ b.waiters = <<>>
    THEN [b EXCEPT !.locked = TRUE, !.pc[m] = "typing"]
    ELSE [b EXCEPT !.waiters = Append(@, m), !.pc[m] = "waiting"]

\* Lock.acquire after its await: the waiter leaves the queue and takes the
\* lock
lock_resume(b, m) ==
    [b EXCEPT !.waiters = SelectSeq(@, LAMBDA w : w # m),
              !.woken = @ \ {m},
              !.locked = TRUE, !.pc[m] = "typing"]

\* Lock.release: the flag is cleared and the future of the first waiter is
\* set
lock_release(b) ==
    [b EXCEPT !.locked = FALSE,
              !.woken = IF b.waiters # <<>> THEN @ \cup {Head(b.waiters)}
                        ELSE @]

\* `async with message.channel.typing()` is entered, or raises, which
\* leaves the lock's block
typing_enter(b, m, ok) ==
    IF ok THEN [b EXCEPT !.pc[m] = "to_thread"]
    ELSE lock_release([b EXCEPT !.pc[m] = "failed"])

\* await asyncio.to_thread(_run_skill, ...): the worker thread starts
start_skill(b, m) ==
    [b EXCEPT !.running = @ \cup {m}, !.pc[m] = "running",
              !.trace = Append(@, <<"start", m>>)]

\* _run_skill found the skill: buf = io.StringIO(); old_stdout = sys.stdout;
\* sys.stdout = buf
redirect_stdout(b, m) ==
    [b EXCEPT !.old_stdout[m] = b.stdout, !.stdout = m]

\* what a skill may write at once: a short fragment, a newline, or a text
\* longer than a Discord message
SkillOutputs == {Piece("out", 3), Piece("\n", 1), Piece("long", LongOutput)}

\* execute_skill streams a fragment, or its closing newline
skill_writes(b, m, piece) ==
    [stdout_write(b, m, piece) EXCEPT !.written[m] = @ + 1]

\* on_ready: print(...) writes the line and its end to sys.stdout
on_ready(b) ==
    [stdout_write(stdout_write(b, 0, Piece("connected", 30)), 0, Piece("\n", 1))
        EXCEPT !.readies = @ + 1]

\* _run_skill ends: it returns its output, raises an Exception (caught:
\* the result is the error text) or raises SystemExit (not an Exception).
\* Once it has redirected sys.stdout, the `finally` rebinds the name to
\* old_stdout and the value returned is buf.getvalue().strip(); before that
\* it returns a message of its own.
skill_ends(b, m, how) ==
    LET redirected == b.old_stdout[m] # Unset
    IN  [b EXCEPT !.running = @ \ {m},
              !.trace = Append(@, <<"end", m>>),
              !.stdout = IF redirected THEN b.old_stdout[m] ELSE @,
              !.how[m] = how,
              !.result[m] =
                  IF how = "returned"
                  THEN IF redirected THEN strip(b.buf[m])
                       ELSE <<[by |-> m, text |-> "No matching skill", n |-> 25],
                              [by |-> m, text |-> "\n", n |-> 1],
                              [by |-> m, text |-> "Available", n |-> 11]>>
                  ELSE IF how = "raised"
                  THEN <<[by |-> m, text |-> "Error: e", n |-> 8]>>
                  ELSE <<>>,
              !.pc[m] = IF how = "SystemExit" THEN "unwinding" ELSE "leaving"]

\* the two `async with` blocks are left, normally or by the exception.
\* SystemExit is no Exception: it leaves the handler's task, and the event
\* loop re-raises it and stops; no callback runs any more, a waiter that
\* was woken included, and the handlers left are cancelled
leave_blocks(b, m) ==
    IF b.pc[m] = "unwinding"
    THEN lock_release([b EXCEPT !.pc[m] = "failed", !.stopped = TRUE])
    ELSE lock_release([b EXCEPT !.pc[m] = "send"])

\* `if not result: result = "(no output)"` and _chunk_message(result)
reply_chunks(b, m) ==
    chunk_text(IF b.result[m] = <<>>
               THEN <<[by |-> m, text |-> "(no output)", n |-> 11]>>
               ELSE b.result[m],
               DefaultLimit)

\* one `await message.channel.send(chunk)`: the chunk is sent, or the send
\* raises and ends the handler
send_chunk(b, m, ok) ==
    LET chunks == reply_chunks(b, m)
        k == Len(b.sent[m]) + 1
    IN  IF ok
        THEN [b EXCEPT !.sent[m] = Append(@, chunks[k]),
                       !.pc[m] = IF k = Len(chunks) THEN "done" ELSE "send"]
        ELSE [b EXCEPT !.pc[m] = "failed", !.send_raised = @ \cup {m}]

\* client.run ends with the SystemExit: asyncio.run cancels the tasks that
\* are left.  A handler not yet at the lock, waiting for it or at a send
\* ends with CancelledError; a waiter leaves the queue, and the lock wakes
\* no other, every waiter being cancelled
cancel(b, m) ==
    [b EXCEPT !.pc[m] = "cancelled",
              !.waiters = SelectSeq(@, LAMBDA w : w # m),
              !.woken = @ \ {m}]

beside_bot == <<run, twin, backend, shell, router, store, chunker>>

BotInit ==
    /\ bot = BotStart
    /\ run = Idle /\ twin = Idle
    /\ backend = Unused /\ shell = Unused
    /\ router = Unused /\ store = Unused /\ chunker = Unused

OnMessage ==
    /\ ~bot.stopped
    /\ \E m \in Messages, kind \in {"own", "other channel", "empty", "request"} :
          /\ bot.pc[m] = "absent"
          /\ bot' = on_message(bot, m, kind)
    /\ UNCHANGED beside_bot

LockAcquire ==
    /\ ~bot.stopped
    /\ \E m \in Messages :
          /\ bot.pc[m] = "acquire"
          /\ bot' = lock_acquire(bot, m)
    /\ UNCHANGED beside_bot

LockResume ==
    /\ ~bot.stopped
    /\ \E m \in Messages :
          /\ bot.pc[m] = "waiting" /\ m \in bot.woken
          /\ bot' = lock_resume(bot, m)
    /\ UNCHANGED beside_bot

TypingEnter ==
    /\ ~bot.stopped
    /\ \E m \in Messages, ok \in BOOLEAN :
          /\ bot.pc[m] = "typing"
          /\ bot' = typing_enter(bot, m, ok)
    /\ UNCHANGED beside_bot

StartSkill ==
    /\ ~bot.stopped
    /\ \E m \in Messages :
          /\ bot.pc[m] = "to_thread"
          /\ bot' = start_skill(bot, m)
    /\ UNCHANGED beside_bot

RedirectStdout ==
    /\ \E m \in Messages :
          /\ bot.pc[m] = "running" /\ bot.old_stdout[m] = Unset
          /\ bot' = redirect_stdout(bot, m)
    /\ UNCHANGED beside_bot

SkillWrites ==
    /\ \E m \in Messages, piece \in SkillOutputs :
          /\ bot.pc[m] = "running" /\ bot.old_stdout[m] # Unset
          /\ bot.written[m] < MaxWrites
          /\ bot' = skill_writes(bot, m, piece)
    /\ UNCHANGED beside_bot

OnReady ==
    /\ ~bot.stopped
    /\ bot.readies < MaxReady
    /\ bot' = on_ready(bot)
    /\ UNCHANGED beside_bot

SkillEnds ==
    /\ \E m \in Messages, how \in {"returned", "raised", "SystemExit"} :
          /\ bot.pc[m] = "running"
          /\ bot' = skill_ends(bot, m, how)
    /\ UNCHANGED beside_bot

LeaveBlocks ==
    /\ ~bot.stopped
    /\ \E m \in Messages :
          /\ bot.pc[m] \in {"leaving", "unwinding"}
          /\ bot' = leave_blocks(bot, m)
    /\ UNCHANGED beside_bot

SendChunk ==
    /\ ~bot.stopped
    /\ \E m \in Messages, ok \in BOOLEAN :
          /\ bot.pc[m] = "send"
          /\ bot' = send_chunk(bot, m, ok)
    /\ UNCHANGED beside_bot

Cancel ==
    /\ bot.stopped
    /\ \E m \in Messages :
          /\ bot.pc[m] \in {"acquire", "waiting", "send"}
          /\ bot' = cancel(bot, m)
    /\ UNCHANGED beside_bot

BotNext ==
    \/ OnMessage
    \/ LockAcquire
    \/ LockResume
    \/ TypingEnter
    \/ StartSkill
    \/ RedirectStdout
    \/ SkillWrites
    \/ OnReady
    \/ SkillEnds
    \/ LeaveBlocks
    \/ SendChunk
    \/ Cancel

SpecBot == BotInit /\ [][BotNext]_vars

(***************************************************************************)
(* C20.  At most one _run_skill is in progress at any time, for every      *)
(* interleaving of the handlers: an execution starts only while its        *)
(* handler holds the execution lock, which happens only after the previous *)
(* execution has ended, by returning or by raising, and its handler has    *)
(* released the lock.                                                      *)
(***************************************************************************)
\* the handlers inside the `async with _execution_lock` block
InLockBlock(b) ==
    {m \in Messages :
        b.pc[m] \in {"typing", "to_thread", "running", "leaving", "unwinding"}}

C20_OneExecutionAtATime ==
    /\ [](Cardinality(bot.running) <= 1)
    /\ [](Cardinality(InLockBlock(bot)) <= 1)
    /\ [](bot.running \subseteq InLockBlock(bot))
    /\ [](InLockBlock(bot) # {} => bot.locked)
    /\ [](\A k \in DOMAIN bot.trace :
            bot.trace[k][1] = "start" =>
                /\ k > 1 => bot.trace[k - 1][1] = "end"
                /\ k < Len(bot.trace) =>
                      bot.trace[k + 1] = <<"end", bot.trace[k][2]>>)
    /\ [][\A m \in Messages :
            (m \in bot'.running /\ m \notin bot.running)
                => /\ bot.running = {}
                   /\ InLockBlock(bot) = {m}
                   /\ bot.locked]_vars

\* three messages arrived together; the first execution raised an
\* Exception, the second returned, and the third is in progress
C20_Witness ==
    /\ bot.running # {}
    /\ Len(bot.trace) = 5
    /\ \E m \in Messages : bot.pc[m] = "done" /\ bot.how[m] = "raised"
    /\ \E m \in Messages :
          /\ bot.pc[m] = "done"
          /\ bot.result[m] = <<[by |-> m, text |-> "out", n |-> 3]>>

(***************************************************************************)
(* Intent routing (router.py).  A string is a sequence of characters; the  *)
(* alphabet has a letter in both cases, so that lower() changes something. *)
(* `router` is one route_intent call: its arguments, whether the           *)
(* environment holds ANTHROPIC_API_KEY, whether api_route was called, the  *)
(* requests sent to the API, and the value returned.                       *)
(***************************************************************************)
Alphabet == {"a", "A", "b"}

\* str.lower
lower(text) == [i \in DOMAIN text |-> IF text[i] = "A" THEN "a" ELSE text[i]]

\* the `in` operator of two strings
Contains(text, part) ==
    \E i \in 0..(Len(text) - Len(part)) :
        SubSeq(text, i + 1, i + Len(part)) = part

Skill(name) == [name |-> name]
NoSkill == [none |-> TRUE]

SkillNames == {<<"a">>, <<"b">>, <<"a", "b">>, <<"A", "b">>, <<"b", "a">>}

\* the skills of an agent: one directory, so one name, each
SkillLists ==
    {sk \in SeqsUpTo({Skill(n) : n \in SkillNames}, MaxSkills) :
        \A i, j \in DOMAIN sk : i # j => sk[i] # sk[j]}

UserInputs == SeqsUpTo(Alphabet, MaxInput)

\* sorted(skills, key=lambda s: len(s.name), reverse=True): a stable sort,
\* skills of one length keep their order
RECURSIVE sorted_by_length(_)
sorted_by_length(skills) ==
    IF skills = <<>> THEN <<>>
    ELSE LET first == Head(skills)
             rest == sorted_by_length(Tail(skills))
             longer == SelectSeq(rest, LAMBDA x : Len(x.name) > Len(first.name))
             others == SelectSeq(rest, LAMBDA x : Len(x.name) <= Len(first.name))
         IN longer \o <<first>> \o others

\* keyword_match without the sort: the first skill of the list that occurs
keyword_match_in_list_order(user_input, skills) ==
    LET hits == SelectSeq(skills,
                    LAMBDA x : Contains(lower(user_input), lower(x.name)))
    IN IF hits = <<>> THEN NoSkill ELSE Head(hits)

keyword_match(user_input, skills) ==
    LET lowered == lower(user_input)
        sorted_skills == sorted_by_length(skills)
        hits == SelectSeq(sorted_skills,
                    LAMBDA x : Contains(lowered, lower(x.name)))
    IN IF hits = <<>> THEN NoSkill ELSE Head(hits)

NONE == <<"N", "O", "N", "E">>

\* what the API answers: NONE, or a name, of a skill or not
Replies == {NONE} \cup SkillNames

\* the end of api_route: the skill the answer names, if any
skill_named(skills, skill_name) ==
    LET found == SelectSeq(skills, LAMBDA x : x.name = skill_name)
    IN IF skill_name = NONE \/ found = <<>> THEN NoSkill ELSE Head(found)

\* api_route up to the request: without a key it returns None
api_route(rt) ==
    IF ~rt.api_key
    THEN [rt EXCEPT !.pc = "returned", !.api_routed = TRUE, !.result = NoSkill]
    ELSE [rt EXCEPT !.pc = "request", !.api_routed = TRUE,
                    !.requests = Append(@, rt.user_input)]

\* route_intent that asks the API whatever the keyword pass found
route_intent_always_api(rt) == api_route(rt)

\* route_intent: the keyword pass, and the API pass if it found nothing
route_intent(rt) ==
    LET result == keyword_match(rt.user_input, rt.skills)
    IN IF result # NoSkill
       THEN [rt EXCEPT !.pc = "returned", !.result = result]
       ELSE api_route(rt)

\* client.messages.create answers
api_answers(rt, reply) ==
    [rt EXCEPT !.pc = "returned", !.result = skill_named(rt.skills, reply)]

\* client.messages.create raises: nothing in the router catches it
api_raises(rt) == [rt EXCEPT !.pc = "raised"]

RouterCall(user_input, skills, api_key) ==
    [pc |-> "called", user_input |-> user_input, skills |-> skills,
     api_key |-> api_key, api_routed |-> FALSE, requests |-> <<>>,
     result |-> NoSkill]

beside_router == <<run, twin, backend, shell, bot, store, chunker>>

RouterInit ==
    /\ router \in {RouterCall(u, sk, k) :
                      u \in UserInputs, sk \in SkillLists, k \in BOOLEAN}
    /\ run = Idle /\ twin = Idle
    /\ backend = Unused /\ shell = Unused /\ bot = Unused
    /\ store = Unused /\ chunker = Unused

RouteIntent ==
    /\ router.pc = "called"
    /\ router' = route_intent(router)
    /\ UNCHANGED beside_router

ApiAnswers ==
    /\ router.pc = "request"
    /\ \E reply \in Replies : router' = api_answers(router, reply)
    /\ UNCHANGED beside_router

ApiRaises ==
    /\ router.pc = "request"
    /\ router' = api_raises(router)
    /\ UNCHANGED beside_router

RouterNext == RouteIntent \/ ApiAnswers \/ ApiRaises

SpecRouter == RouterInit /\ [][RouterNext]_vars

(***************************************************************************)
(* C21.  route_intent is two-pass with short-circuit: api_route is called  *)
(* if and only if keyword_match returns no skill; when some skill name     *)
(* occurs in the input, the keyword result is returned and no request is   *)
(* sent to the API.                                                        *)
(***************************************************************************)
\* some skill name occurs, whatever its case, in the input
SomeNameOccurs(user_input, skills) ==
    \E i \in DOMAIN skills :
        \E j \in 1..Len(user_input), k \in 1..Len(user_input) :
            lower(SubSeq(user_input, j, k)) = lower(skills[i].name)

C21_TwoPassShortCircuit ==
    router.pc \notin {"unused", "called"} =>
        /\ router.api_routed
              <=> keyword_match(router.user_input, router.skills) = NoSkill
        /\ SomeNameOccurs(router.user_input, router.skills) =>
              /\ router.pc = "returned"
              /\ router.result = keyword_match(router.user_input, router.skills)
              /\ router.result # NoSkill
              /\ ~router.api_routed
              /\ router.requests = <<>>

\* the keyword pass decided a call although the environment holds a key:
\* a skill was returned and nothing was sent to the API
C21_Witness ==
    /\ router.pc = "returned"
    /\ router.api_key
    /\ SomeNameOccurs(router.user_input, router.skills)
    /\ router.result # NoSkill
    /\ router.requests = <<>>

(***************************************************************************)
(* C22.  keyword_match returns a skill whose name occurs, whatever its     *)
(* case, in the input, and among those one with the longest name: never a  *)
(* skill whose name is a proper part of the name of another skill that     *)
(* occurs.  It returns None exactly when no skill name occurs.             *)
(***************************************************************************)
Occurring(user_input, skills) ==
    {i \in DOMAIN skills :
        SomeNameOccurs(user_input, <<skills[i]>>)}

C22_LongestNameWins ==
    router.pc \notin {"unused"} =>
        LET user_input == router.user_input
            skills == router.skills
            found == keyword_match(user_input, skills)
            occurring == Occurring(user_input, skills)
        IN /\ found = NoSkill <=> occurring = {}
           /\ found # NoSkill =>
                 /\ \E i \in occurring : skills[i] = found
                 /\ \A i \in occurring :
                       /\ Len(skills[i].name) <= Len(found.name)
                       /\ ~(/\ Len(skills[i].name) > Len(found.name)
                            /\ Contains(lower(skills[i].name), lower(found.name)))
           /\ (router.pc = "returned" /\ ~router.api_routed)
                 => router.result = found

\* the second skill of the list was returned although the name of the first
\* occurs in the input too, as a part of the second's
C22_Witness ==
    /\ router.pc = "returned" /\ ~router.api_routed
    /\ Len(router.skills) = 2
    /\ router.result = router.skills[2]
    /\ Occurring(router.user_input, router.skills) = {1, 2}
    /\ Contains(lower(router.skills[2].name), lower(router.skills[1].name))

(***************************************************************************)
(* Agent packs (installer.py).  `store` holds what the installer keeps on  *)
(* disk: the directory of each installed agent under <data>/agents, the    *)
(* registry <data>/registry.toml and the configuration                     *)
(* <config>/agents.toml; and the last operation with its outcome.          *)
(***************************************************************************)
AgentNames == {"gmail", "kairos"}
SkillFiles == {"check", "send"}

NoDir == [exists |-> FALSE, skills |-> {}, mcp |-> FALSE]
NoEntry ==
    [present |-> FALSE, source_path |-> "", skill_count |-> 0,
     install_date |-> 0]
NoStanza ==
    [present |-> FALSE, mode |-> "", description |-> "", working_dir |-> "",
     skills_dir |-> "", executor |-> ""]
\* a stanza written by hand for an agent that lives in a vault
LinkedStanza ==
    [present |-> TRUE, mode |-> "linked", description |-> "Test",
     working_dir |-> "/vault", skills_dir |-> "/vault", executor |-> ""]
\* a stanza written by hand without a mode
BareStanza ==
    [present |-> TRUE, mode |-> "", description |-> "Test",
     working_dir |-> "/vault", skills_dir |-> "/vault", executor |-> ""]

NoFile(none) == [exists |-> FALSE, agents |-> [n \in AgentNames |-> none]]
TomlFile(agents) == [exists |-> TRUE, agents |-> agents]

\* agents.toml before the first operation: absent, without agents, or
\* written by hand
Configs ==
    {NoFile(NoStanza), TomlFile([n \in AgentNames |-> NoStanza])}
      \cup {TomlFile([n \in AgentNames |-> IF n = m THEN st ELSE NoStanza]) :
               m \in AgentNames, st \in {LinkedStanza, BareStanza}}

\* a pack directory: agent.toml, its name (absent: ""), skills/*/SKILL.md
\* and mcp.json
Packs ==
    {[has_toml |-> FALSE, name |-> "", skills |-> {}, mcp |-> FALSE,
      path |-> "pack"]}
      \cup {[has_toml |-> TRUE, name |-> n, skills |-> sk, mcp |-> m,
             path |-> "pack"] :
               n \in AgentNames \cup {""}, sk \in SUBSET SkillFiles,
               m \in BOOLEAN}

\* copy_skills and copy_mcp_config: files are added to what is there
copy_pack(dir, pack) ==
    [exists |-> TRUE, skills |-> dir.skills \cup pack.skills,
     mcp |-> dir.mcp \/ pack.mcp]

register_agent(registry, agent_name, source_path, skill_count, now) ==
    TomlFile([registry.agents EXCEPT ![agent_name] =
        [present |-> TRUE, source_path |-> source_path,
         skill_count |-> skill_count, install_date |-> now]])

\* unregister_agent that leaves the entry in place
unregister_agent_keeping(registry, agent_name) == registry

unregister_agent(registry, agent_name) ==
    IF ~registry.exists THEN registry
    ELSE TomlFile([registry.agents EXCEPT ![agent_name] = NoEntry])

merge_agent_config(config, agent_name, description, working_dir) ==
    TomlFile([config.agents EXCEPT ![agent_name] =
        [present |-> TRUE, mode |-> "installed", description |-> description,
         working_dir |-> working_dir, skills_dir |-> "",
         executor |-> "claude_code"]])

remove_agent_config(config, agent_name) ==
    IF ~config.exists THEN config
    ELSE TomlFile([config.agents EXCEPT ![agent_name] = NoStanza])

Operation(op, name, outcome) == [op |-> op, name |-> name, outcome |-> outcome]

\* install_agent: read_agent_toml raises FileNotFoundError without
\* agent.toml, metadata["name"] raises KeyError without a name
install_agent(st, pack) ==
    IF ~pack.has_toml
    THEN [st EXCEPT !.ops = @ + 1,
                    !.last = Operation("install", "", "FileNotFoundError")]
    ELSE IF pack.name = ""
    THEN [st EXCEPT !.ops = @ + 1,
                    !.last = Operation("install", "", "KeyError")]
    ELSE [st EXCEPT
            !.dirs[pack.name] = copy_pack(@, pack),
            !.registry = register_agent(@, pack.name, pack.path,
                                        Cardinality(pack.skills), st.ops + 1),
            !.config = merge_agent_config(@, pack.name, "", "."),
            !.ops = @ + 1,
            !.last = Operation("install", pack.name, "returned")]

\* the checks of uninstall_agent that only refuse an unknown agent
uninstall_refuses_unknown_only(config, agent_name) ==
    ~config.exists \/ ~config.agents[agent_name].present

\* the checks of uninstall_agent: the agent is unknown, or linked
uninstall_refuses(config, agent_name) ==
    \/ ~config.exists
    \/ ~config.agents[agent_name].present
    \/ config.agents[agent_name].mode = "linked"

uninstall_agent(st, agent_name) ==
    IF uninstall_refuses(st.config, agent_name)
    THEN [st EXCEPT !.ops = @ + 1,
                    !.last = Operation("uninstall", agent_name, "ValueError")]
    ELSE [st EXCEPT
            !.dirs[agent_name] = NoDir,
            !.registry = unregister_agent(@, agent_name),
            !.config = remove_agent_config(@, agent_name),
            !.ops = @ + 1,
            !.last = Operation("uninstall", agent_name, "returned")]

\* main.init (`telos init`): agents.toml is written, with comments only,
\* unless it exists; the installer's directories and the registry are not
\* touched
init(st) ==
    IF st.config.exists THEN st
    ELSE [st EXCEPT !.config = TomlFile(st.config.agents)]

beside_store == <<run, twin, backend, shell, bot, router, chunker>>

StoreInit ==
    /\ store \in {[dirs |-> [n \in AgentNames |-> NoDir],
                   registry |-> NoFile(NoEntry), config |-> c,
                   ops |-> 0, last |-> Operation("none", "", "none")] :
                     c \in Configs}
    /\ run = Idle /\ twin = Idle
    /\ backend = Unused /\ shell = Unused /\ bot = Unused
    /\ router = Unused /\ chunker = Unused

InstallAgent ==
    /\ store.ops < MaxOps
    /\ \E pack \in Packs : store' = install_agent(store, pack)
    /\ UNCHANGED beside_store

UninstallAgent ==
    /\ store.ops < MaxOps
    /\ \E name \in AgentNames : store' = uninstall_agent(store, name)
    /\ UNCHANGED beside_store

TelosInit ==
    /\ store' = init(store)
    /\ UNCHANGED beside_store

StoreNext == InstallAgent \/ UninstallAgent \/ TelosInit

SpecStore == StoreInit /\ [][StoreNext]_vars

(***************************************************************************)
(* C23.  Installing and uninstalling a pack is a round trip: after         *)
(* install_agent the skills of the pack are in the agent's directory and   *)
(* the agent is in registry.toml and in agents.toml; after a following     *)
(* uninstall_agent the directory, the registry entry and the stanza are    *)
(* absent; and neither operation changes what is kept of another agent.    *)
(***************************************************************************)
Installed(st, name) ==
    /\ st.dirs[name].exists
    /\ st.registry.exists /\ st.registry.agents[name].present
    /\ st.config.exists /\ st.config.agents[name].present

Absent(st, name) ==
    /\ ~st.dirs[name].exists
    /\ ~st.registry.agents[name].present
    /\ ~st.config.agents[name].present

C23_InstallUninstallRoundTrip ==
    /\ [][\A pack \in Packs :
            (store' = install_agent(store, pack)
                /\ pack.has_toml /\ pack.name # "")
              => /\ Installed(store', pack.name)
                 /\ pack.skills \subseteq store'.dirs[pack.name].skills
                 /\ store'.registry.agents[pack.name].skill_count
                       = Cardinality(pack.skills)
                 /\ store'.config.agents[pack.name].mode = "installed"]_vars
    /\ [][(/\ store.last = Operation("install", store'.last.name, "returned")
           /\ store'.last.op = "uninstall")
            => /\ store'.last.outcome = "returned"
               /\ Absent(store', store'.last.name)]_vars
    /\ [][\A n \in AgentNames :
            n # store'.last.name
              => /\ store'.dirs[n] = store.dirs[n]
                 /\ store'.registry.agents[n] = store.registry.agents[n]
                 /\ store'.config.agents[n] = store.config.agents[n]]_vars

\* gmail was installed beside a linked kairos and uninstalled again
C23_Witness ==
    /\ store.last = Operation("uninstall", "gmail", "returned")
    /\ store.ops = 2
    /\ store.registry.exists /\ Absent(store, "gmail")
    /\ store.config.agents["kairos"] = LinkedStanza

(***************************************************************************)
(* C24.  uninstall_agent refuses without side effects: for a name that is  *)
(* not in agents.toml, when agents.toml does not exist, and for an agent   *)
(* whose mode is "linked", it raises ValueError and leaves the installed   *)
(* directories, registry.toml and agents.toml as they were.                *)
(***************************************************************************)
C24_UninstallRefusesCleanly ==
    [][(store'.last.op = "uninstall" /\ store'.ops = store.ops + 1
          /\ LET name == store'.last.name
             IN \/ ~store.config.exists
                \/ ~store.config.agents[name].present
                \/ store.config.agents[name].mode = "linked")
        => /\ store'.last.outcome = "ValueError"
           /\ store'.dirs = store.dirs
           /\ store'.registry = store.registry
           /\ store'.config = store.config]_vars

\* the uninstall of a linked agent was refused while another agent is
\* installed
C24_Witness ==
    /\ store.last = Operation("uninstall", "kairos", "ValueError")
    /\ store.config.agents["kairos"].mode = "linked"
    /\ Installed(store, "gmail")

(***************************************************************************)
(* C25.  The built-in catalog BUILTIN_TOOLS has exactly four entries,      *)
(* write_file, read_file, list_directory and fetch_url, and the first      *)
(* provider call of a built-in-only run receives exactly these four tools  *)
(* as its catalog.                                                         *)
(***************************************************************************)
\* the first provider call of a built-in-only run has been made
FirstSimpleCallMade(r) == r.variant = "simple" /\ r.calls # <<>>

\* the catalog has four entries, without run_command, and the first call
\* receives four tools
C25_FourBuiltinTools ==
    FirstSimpleCallMade(run) =>
        /\ Len(BUILTIN_TOOLS) = 4
        /\ builtin_names = {"write_file", "read_file", "list_directory",
                            "fetch_url"}
        /\ Len(run.calls[1].tools.defs) = 4

(***************************************************************************)
(* C26.  The tool calls of a round are executed one at a time in the order *)
(* received: a call is invoked only when every earlier call of the round   *)
(* has its result, also when it goes to the external transport; no tool    *)
(* of a round starts before the round's stream is consumed; and the next   *)
(* provider call starts only after the last tool of the round has          *)
(* finished.                                                                *)
(***************************************************************************)
\* a tool was invoked in the step: it was logged, sent to the transport,
\* or its result was appended
ToolInvoked(r, after) ==
    \/ after.sent # r.sent
    \/ after.n_tool_calls # r.n_tool_calls
    \/ (after.tool_results # r.tool_results /\ after.tool_results # <<>>)

C26_ToolsOneAtATimeInOrder ==
    /\ [][ToolInvoked(run, run') =>
            LET i == Len(run.tool_results) + 1
            IN  /\ run.pc = "tools" /\ run.events = <<>>
                /\ i <= Len(run.tool_calls)
                /\ \/ run'.sent = run.sent
                   \/ /\ Len(run'.sent) = Len(run.sent) + 1
                      /\ run'.sent[Len(run'.sent)].name = run.tool_calls[i].name
                /\ \/ /\ run'.pc = "tools"
                      /\ Len(run'.tool_results) = i
                      /\ SubSeq(run'.tool_results, 1, i - 1) = run.tool_results
                      /\ run'.tool_results[i].tool_use_id = run.tool_calls[i].id
                      /\ run'.log = Append(run.log,
                            <<"tool_call", run.tool_calls[i].name,
                              run'.tool_results[i].is_error>>)
                   \/ /\ run'.pc \in {"unwind", "except"}
                      /\ run'.tool_results = run.tool_results]_vars
    /\ [][(run.pc = "stream" /\ run'.pc = "tools")
            => (run.events = <<DoneEvent>> /\ run'.tool_results = <<>>)]_vars
    /\ [][(run.pc = "tools" /\ run'.pc = "loop")
            => Len(run.tool_results) = Len(run.tool_calls)]_vars
    /\ [][Len(run'.calls) > Len(run.calls) => run.pc = "loop"]_vars

\* a round of two calls with different ids, the second sent to the
\* transport, has been executed and the next provider call made
C26_Witness ==
    /\ run.variant = "mcp"
    /\ Len(run.calls) = 2
    /\ Len(run.tool_results) = 2
    /\ run.tool_results[1].tool_use_id # run.tool_results[2].tool_use_id
    /\ Len(run.sent) = 1 /\ run.sent[1].session # 0
    /\ run.messages[2].content[Len(run.messages[2].content)].name = "ext_tool"

(***************************************************************************)
(* C27.  The compatibility backend never exposes a partially assembled     *)
(* tool call: for every interleaving of the deltas of different indices,   *)
(* no tool_call event is emitted before the last chunk is consumed, and    *)
(* exactly one ToolCall is emitted per distinct index; its arguments are   *)
(* the parse of the index's argument fragments concatenated in arrival     *)
(* order, its id and name the last non-empty id and name received for the  *)
(* index.                                                                   *)
(***************************************************************************)
\* the indices of the deltas, each once, in the order of first arrival
RECURSIVE FirstArrivals(_)
FirstArrivals(deltas) ==
    IF deltas = <<>> THEN <<>>
    ELSE LET front == FirstArrivals(SubSeq(deltas, 1, Len(deltas) - 1))
             index == deltas[Len(deltas)].index
         IN  IF \E k \in DOMAIN front : front[k] = index
             THEN front ELSE Append(front, index)

RECURSIVE LastNonEmpty(_)
LastNonEmpty(strings) ==
    IF strings = <<>> THEN ""
    ELSE IF strings[Len(strings)] # "" THEN strings[Len(strings)]
    ELSE LastNonEmpty(SubSeq(strings, 1, Len(strings) - 1))

\* the call the deltas received for an index describe
Assembled(deltas, index) ==
    LET mine == SelectSeq(deltas, LAMBDA d : d.index = index)
        fragments == SelectSeq([k \in DOMAIN mine |-> mine[k].arguments],
                               LAMBDA a : a # "")
    IN  [id |-> LastNonEmpty([k \in DOMAIN mine |-> mine[k].id]),
         name |-> LastNonEmpty([k \in DOMAIN mine |-> mine[k].name]),
         arguments |-> parse_arguments(fragments)]

\* the calls of the tool_call events, in the order emitted
EmittedCalls(events) ==
    LET calls == SelectSeq(events, LAMBDA e : e.type = "tool_call")
    IN  [k \in DOMAIN calls |-> calls[k].tool_call]

C27_CallsAssembledAtStreamEnd ==
    backend.kind = "ollama" =>
        LET indices == FirstArrivals(backend.received)
            emitted == EmittedCalls(backend.events)
        IN  /\ backend.pc \in {"stream", "raised"} => emitted = <<>>
            /\ backend.pc = "flush" =>
                  /\ Len(emitted) = backend.flushed
                  /\ Len(emitted) <= Len(indices)
            /\ backend.pc = "done" => Len(emitted) = Len(indices)
            /\ \A k \in DOMAIN emitted :
                  emitted[k] = Assembled(backend.received, indices[k])

\* deltas of two indices arrived interleaved; the call of index 0 was
\* emitted with its two fragments joined and parsed
C27_Witness ==
    /\ backend.kind = "ollama" /\ backend.pc = "done"
    /\ Len(backend.received) = 3
    /\ backend.received[1].index = 0 /\ backend.received[2].index = 1
    /\ backend.received[3].index = 0
    /\ Len(EmittedCalls(backend.events)) = 2
    /\ EmittedCalls(backend.events)[1].arguments = "[1]"
    /\ EmittedCalls(backend.events)[1].id = "call_1"

(***************************************************************************)
(* C28.  The tool_call events of one response of the compatibility backend *)
(* are emitted in ascending stream index, whatever order the deltas of the *)
(* different indices arrived in.                                           *)
(***************************************************************************)
C28_CallsInIndexOrder ==
    (backend.kind = "ollama" /\ backend.pc = "done") =>
        LET indices == FirstArrivals(backend.received)
        IN  /\ Len(EmittedCalls(backend.events)) = Len(indices)
            /\ \A k, l \in DOMAIN indices : k < l => indices[k] < indices[l]

(***************************************************************************)
(* C29.  The tool catalog passed to the provider never holds two           *)
(* definitions with the same name, whatever the servers declared           *)
(* advertise: also when two servers advertise one name, or a server        *)
(* advertises the name of a built-in tool.                                 *)
(***************************************************************************)
NamesUnique(defs) == \A i, j \in DOMAIN defs : defs[i] = defs[j] => i = j

C29_CatalogNamesUnique ==
    \A k \in DOMAIN run.calls : NamesUnique(run.calls[k].tools.defs)

(***************************************************************************)
(* C30.  The text buffer is scoped to one round: the text block of the     *)
(* assistant turn appended for a round is the concatenation, in order, of  *)
(* the text fragments of that round's successful response; it holds no     *)
(* text of an earlier round or of a failed attempt, and there is no text   *)
(* block when the response carried no text.                                *)
(***************************************************************************)
\* the assistant turn of the round was just appended, or its tools are
\* being executed
TurnAppended(r) == r.pc = "tools"

TextBlocks(content) == SelectSeq(content, LAMBDA b : b.type = "text")

C30_TextBufferPerRound ==
    /\ TurnAppended(run) =>
          LET turn == run.messages[Len(run.messages)]
              text == Flatten(run.heard)
          IN  /\ turn.role = "assistant"
              /\ IF text = <<>>
                 THEN TextBlocks(turn.content) = <<>>
                 ELSE /\ TextBlocks(turn.content)
                            = <<[type |-> "text", text |-> text]>>
                      /\ turn.content[1].type = "text"
    /\ run.pc = "stream" => Flatten(run.text_parts) = Flatten(run.heard)

\* the second round's turn has no text block although the first round's
\* response carried text, and three fragments were written
C30_Witness ==
    /\ TurnAppended(run)
    /\ run.rounds = 2
    /\ Len(run.messages) = 4
    /\ TextBlocks(run.messages[2].content) # <<>>
    /\ TextBlocks(run.messages[4].content) = <<>>
    /\ run.heard = <<>>

(***************************************************************************)
(* C31.  A result an external server returns is passed through as a        *)
(* ToolResult whose is_error is the server's error flag and whose content  *)
(* represents every content block of the server's result, textual or not:  *)
(* content that is not text is serialized to text, not dropped.            *)
(***************************************************************************)
\* the call executed last went to a server, which answered
ServerAnswered(r) ==
    /\ r.pc = "tools" /\ r.tool_results # <<>> /\ r.replies # <<>>
    /\ LET tc == r.tool_calls[Len(r.tool_results)]
       IN  ~uses_builtin(r, tc) /\ SessionOf(r.tool_to_session, tc.name) # 0

\* the block's text, or its data, is part of the content
Represented(block, content) ==
    \E k \in DOMAIN content :
        content[k] = IF block.type = "text" THEN block.text ELSE block.data

C31_ServerResultPassedThrough ==
    ServerAnswered(run) =>
        LET reply == run.replies[Len(run.replies)]
            result == run.tool_results[Len(run.tool_results)]
        IN  /\ result.is_error = reply.isError
            /\ \A k \in DOMAIN reply.content :
                  Represented(reply.content[k], result.content)

(***************************************************************************)
(* C32.  Stdout capture in the Discord front end is safe: under every      *)
(* interleaving of the handlers and the other callbacks of the bot (an     *)
(* on_ready that prints) with a skill execution in its worker thread, the  *)
(* text captured and replied for a request consists only of what that      *)
(* request's own skill execution wrote, and sys.stdout is bound to the     *)
(* original stream again when the execution has ended, by returning or by  *)
(* raising.                                                                *)
(***************************************************************************)
C32_CaptureOnlyOwnOutput ==
    /\ \A m \in Messages :
          /\ \A k \in DOMAIN bot.result[m] : bot.result[m][k].by = m
          /\ \A k \in DOMAIN bot.sent[m] :
                \A i \in DOMAIN bot.sent[m][k] : bot.sent[m][k][i].by = m
    /\ bot.running = {} => bot.stdout = Original

(***************************************************************************)
(* _chunk_message (discord_bot.py).  A text is a sequence of characters,   *)
(* among them the newline.  `chunker` is one call: its arguments, the rest *)
(* of the text, and the chunks appended so far.                            *)
(***************************************************************************)
Characters == {"a", "b", "\n"}

Texts == UNION {[1..n -> Characters] : n \in 0..MaxText}

Limits == 1..MaxLimit

\* str.rfind(c, lo, hi): the highest index (from 0) in the slice [lo, hi)
\* where c occurs, or -1
rfind(t, c, lo, hi) ==
    LET upper == IF hi < Len(t) THEN hi ELSE Len(t)
        found == {i \in lo..(upper - 1) : t[i + 1] = c}
    IN  IF found = {} THEN 0 - 1
        ELSE CHOOSE i \in found : \A j \in found : j <= i

\* text.lstrip("\n")
RECURSIVE lstrip_newlines(_)
lstrip_newlines(t) ==
    IF t # <<>> /\ Head(t) = "\n" THEN lstrip_newlines(Tail(t)) ELSE t

\* the call up to the loop: a text that fits is returned as the one chunk
chunk_message(text, limit) ==
    IF Len(text) <= limit
    THEN [pc |-> "returned", input |-> text, limit |-> limit,
          text |-> text, chunks |-> <<text>>]
    ELSE [pc |-> "loop", input |-> text, limit |-> limit,
          text |-> text, chunks |-> <<>>]

\* one test of `while text` and one iteration
chunk_step(c) ==
    IF c.text = <<>> THEN [c EXCEPT !.pc = "returned"]
    ELSE IF Len(c.text) <= c.limit
    THEN [c EXCEPT !.chunks = Append(@, c.text), !.pc = "returned"]
    ELSE LET found == rfind(c.text, "\n", 0, c.limit)
             split == IF found = 0 - 1 THEN c.limit ELSE found
         IN  [c EXCEPT !.chunks = Append(@, SubSeq(c.text, 1, split)),
                       !.text = lstrip_newlines(
                                    SubSeq(c.text, split + 1, Len(c.text)))]

beside_chunker == <<run, twin, backend, shell, bot, router, store>>

ChunkInit ==
    /\ chunker = [pc |-> "idle"]
    /\ run = Idle /\ twin = Idle
    /\ backend = Unused /\ shell = Unused /\ bot = Unused
    /\ router = Unused /\ store = Unused

ChunkMessage ==
    /\ chunker.pc = "idle"
    /\ \E text \in Texts, limit \in Limits :
          chunker' = chunk_message(text, limit)
    /\ UNCHANGED beside_chunker

ChunkStep ==
    /\ chunker.pc = "loop"
    /\ chunker' = chunk_step(chunker)
    /\ UNCHANGED beside_chunker

ChunkNext ==
    \/ ChunkMessage
    \/ ChunkStep

SpecChunk == ChunkInit /\ [][ChunkNext]_vars

(***************************************************************************)
(* C33.  _chunk_message returns, for every text and every limit >= 1,      *)
(* chunks that all have at most `limit` characters and are all non-empty   *)
(* when the text is non-empty; the chunks, in order, are the text without  *)
(* the newlines removed at the split points.                               *)
(***************************************************************************)
RECURSIVE Concat(_)
Concat(chunks) ==
    IF chunks = <<>> THEN <<>> ELSE Head(chunks) \o Concat(Tail(chunks))

WithoutNewlines(t) == SelectSeq(t, LAMBDA ch : ch # "\n")

C33_ChunksFitAndNonEmpty ==
    chunker.pc = "returned" =>
        /\ \A k \in DOMAIN chunker.chunks :
              /\ Len(chunker.chunks[k]) <= chunker.limit
              /\ chunker.input # <<>> => chunker.chunks[k] # <<>>
        /\ WithoutNewlines(Concat(chunker.chunks))
              = WithoutNewlines(chunker.input)

(***************************************************************************)
(* C34.  A failed provider attempt leaves the conversation untouched: when *)
(* a provider call raises after having yielded events and is retried, the  *)
(* retry is handed the history the failed call was handed, no turn is      *)
(* appended for the failed attempt, and no tool call the failed attempt    *)
(* yielded is executed: the calls executed in a round are the ones the     *)
(* response of that round yielded, and that response ended normally.       *)
(***************************************************************************)
\* the calls that raised and were retried: the catalog is dropped by the
\* except clause and by nothing else
RetriedCalls(r) ==
    {k \in 1..(Len(r.calls) - 1) :
        Truthy(r.calls[k].tools) /\ ~Truthy(r.calls[k + 1].tools)}

\* the calls whose history `handed` keeps, the last two, and the history the
\* n-th of them was handed; every call is the last when it is made and the
\* one before the last when the next is made, so a property of the kept
\* calls in every state is a property of every call
Kept(r) == {n \in DOMAIN r.calls : n > Len(r.calls) - Len(r.handed)}

Handed(r, n) == r.handed[Len(r.handed) - (Len(r.calls) - n)]

\* the step of the except clause that retries
AttemptFails ==
    /\ run.pc = "stream" /\ run'.pc = "loop"
    /\ Truthy(run.tools) /\ ~Truthy(run'.tools)

C34_FailedAttemptLeavesNoTrace ==
    /\ [](\A k \in RetriedCalls(run) \cap Kept(run) :
            Handed(run, k + 1) = Handed(run, k))
    /\ [](run.pc = "tools" =>
            /\ run.tool_calls = run.yielded
            /\ run.events = <<>>)
    /\ [][AttemptFails =>
            /\ run'.messages = run.messages
            /\ run'.n_tool_calls = run.n_tool_calls
            /\ run'.log = run.log]_vars
    /\ [][(run.pc = "loop" /\ run'.pc = "stream") =>
            /\ run'.tool_calls = <<>>
            /\ run'.messages = run.messages]_vars

\* the first call streamed "a", "b" and a tool call and raised; the retry,
\* handed the same one-turn history, asked for a tool, which is executed
C34_Witness ==
    /\ run.pc = "tools" /\ run.n_tool_calls = 1
    /\ Len(run.calls) = 2 /\ RetriedCalls(run) = {1}
    /\ Handed(run, 2) = Handed(run, 1)
    /\ Len(Handed(run, 2)) = 1
    /\ run.out = << <<"a">>, <<"b">> >>
    /\ Len(run.messages) = 2

(***************************************************************************)
(* C35.  The conversation history is append-only and well shaped in every  *)
(* state of a run: it starts with the one user prompt turn, the roles      *)
(* alternate user, assistant, user, ..., no turn once appended is changed  *)
(* or removed, and the history handed to every provider call has 1 + 2k    *)
(* turns, k being the number of earlier rounds that produced tool calls,   *)
(* so that it ends with a user turn.                                       *)
(***************************************************************************)
WellShaped(messages) ==
    /\ messages[1] = Prompt
    /\ \A i \in DOMAIN messages :
          messages[i].role = IF i % 2 = 1 THEN "user" ELSE "assistant"

\* the rounds before the n-th that produced tool calls: a round that is
\* followed by another either did, or raised and is retried
ToolRoundsBefore(r, n) ==
    (n - 1) - Cardinality({k \in RetriedCalls(r) : k < n})

C35_HistoryAppendOnly ==
    /\ [](run.messages # <<>> => WellShaped(run.messages))
    /\ [](run.calls # <<>> => run.messages # <<>>)
    /\ [](\A n \in DOMAIN run.calls :
            /\ run.calls[n].turns = 1 + 2 * ToolRoundsBefore(run, n)
            /\ run.calls[n].turns <= Len(run.messages)
            /\ run.messages[run.calls[n].turns].role = "user"
            /\ n \in Kept(run) =>
                  /\ Len(Handed(run, n)) = run.calls[n].turns
                  /\ Handed(run, n)[run.calls[n].turns].role = "user"
                  /\ Handed(run, n)
                        = SubSeq(run.messages, 1, run.calls[n].turns))
    /\ [](Len(run.handed) = IF Len(run.calls) < 2 THEN Len(run.calls) ELSE 2)
    /\ [][/\ Len(run'.messages) >= Len(run.messages)
          /\ SubSeq(run'.messages, 1, Len(run.messages)) = run.messages]_vars

\* the first call raised and was retried, the retry asked for a tool, and
\* the third call is handed three turns; a later round has appended two more
C35_Witness ==
    /\ Len(run.calls) >= 4 /\ RetriedCalls(run) = {1}
    /\ run.calls[2].turns = 1 /\ run.calls[3].turns = 3
    /\ run.calls[4].turns = 5
    /\ Len(run.messages) = 6 /\ run.pc = "tools"

(***************************************************************************)
(* C36.  Degradation is one-way within a run: once the catalog has been    *)
(* cleared after a provider failure it stays cleared, with the simplified  *)
(* system instruction, in every later round and is never restored; so at   *)
(* most one provider failure is absorbed per run (a failure is absorbed    *)
(* only while the catalog is there, and a failure without it ends the      *)
(* run), and the retry is one of the 20 permitted rounds.                  *)
(***************************************************************************)
Degraded(r) == r.calls # <<>> /\ ~Truthy(r.tools)

\* a provider failure after which the loop goes on
FailureAbsorbed ==
    /\ run.pc = "stream" /\ Head(run.events).type = "raise"
    /\ run'.pc = "loop"

C36_DegradationOneWay ==
    /\ [](Degraded(run) => (run.tools = None /\ run.system = SYSTEM_PLAIN))
    /\ [](\A k \in DOMAIN run.calls : \A j \in DOMAIN run.calls :
            (k < j /\ ~Truthy(run.calls[k].tools))
                => /\ run.calls[j].tools = None
                   /\ run.calls[j].system = SYSTEM_PLAIN)
    /\ [](Cardinality(RetriedCalls(run)) <= 1)
    /\ [](Len(run.calls) <= MaxRounds /\ run.rounds = Len(run.calls))
    /\ [][Degraded(run) => Degraded(run')]_vars
    /\ [][FailureAbsorbed => (~Degraded(run) /\ Degraded(run'))]_vars
    /\ [][(run.pc = "stream" /\ Head(run.events).type = "raise"
              /\ Degraded(run)) => run'.pc = "except"]_vars

\* the first call raised and was absorbed; two calls were made without the
\* catalog, and the failure of the second of them ended the run
C36_Witness ==
    /\ run.pc = "done" /\ run.outcome = "raised"
    /\ Len(run.calls) = 3 /\ RetriedCalls(run) = {1}
    /\ run.calls[2].tools = None /\ run.calls[3].tools = None
    /\ run.calls[3].system = SYSTEM_PLAIN
    /\ Len(run.messages) = 3

(***************************************************************************)
(* C37.  The execution context stays consistent with the run: the round    *)
(* counter is the number of provider calls made so far, the tool-call      *)
(* counter is the number of tool-result blocks produced so far, each with  *)
(* its tool_call log entry, and a run that logged skill_start and ends by  *)
(* returning or by raising an Exception logs exactly one skill_end, with   *)
(* error None on return and the text of the exception otherwise.           *)
(***************************************************************************)
Entries(log, event) == {k \in DOMAIN log : log[k][1] = event}

\* the result blocks in the history, and those of the current round not yet
\* appended to it
RECURSIVE BlocksIn(_)
BlocksIn(messages) ==
    IF Len(messages) <= 1 THEN 0
    ELSE LET last == messages[Len(messages)]
         IN  (IF last.role = "user" THEN Len(last.content) ELSE 0)
                + BlocksIn(SubSeq(messages, 1, Len(messages) - 1))

BlocksProduced(r) ==
    BlocksIn(r.messages)
        + IF r.messages # <<>> /\ r.messages[Len(r.messages)].role = "assistant"
          THEN Len(r.tool_results) ELSE 0

C37_ContextFollowsRun ==
    /\ run.rounds = Len(run.calls)
    /\ run.n_tool_calls = BlocksProduced(run)
    /\ run.n_tool_calls = Cardinality(Entries(run.log, "tool_call"))
    /\ run.pc # "done" => Entries(run.log, "skill_end") = {}
    /\ (run.pc = "done" /\ Entries(run.log, "skill_start") # {}) =>
          /\ run.outcome \in {"returned", "raised"}
          /\ Entries(run.log, "skill_end") = {Len(run.log)}
          /\ run.log[Len(run.log)]
                = <<"skill_end",
                    IF run.outcome = "returned" THEN "None" ELSE run.error>>
    /\ (run.pc = "done" /\ run.outcome = "raised") => run.error # "None"

\* an external-tools run whose round asked for two tools: the first gave
\* its block, the second raised, and the run ended with that error logged
C37_Witness ==
    /\ run.pc = "done" /\ run.outcome = "raised"
    /\ run.rounds = 1 /\ run.n_tool_calls = 1
    /\ Len(run.tool_results) = 1 /\ Len(run.tool_calls) = 2
    /\ Len(run.messages) = 2
    /\ Len(run.log) = 3

(***************************************************************************)
(* C38.  One failing request never blocks the Discord front end: for every *)
(* accepted message, whether its skill execution returns, raises an        *)
(* exception or exits (SystemExit), the execution lock is released, at     *)
(* least one reply is sent for the message (the output, an "Error: ..."    *)
(* text or "(no output)"), and later messages are still served.  Stated on *)
(* the states in which the handler of such a message has ended without a   *)
(* send that raised: it has sent a reply, the lock is held only by a       *)
(* handler inside the block, and the event loop goes on.                   *)
(***************************************************************************)
\* the messages whose skill execution has ended and whose handler is over
Handled(b) ==
    {m \in Messages :
        /\ b.pc[m] \in {"done", "failed"}
        /\ b.how[m] # "none"
        /\ m \notin b.send_raised}

C38_FailingRequestNeverBlocks ==
    /\ \A m \in Handled(bot) : bot.sent[m] # <<>>
    /\ bot.locked => InLockBlock(bot) # {}
    /\ ~bot.stopped

====
